---------------------------- MODULE Spec2Model ----------------------------
(***************************************************************************)
(* A model of the flow-lines core (packages/core/src): the seeded noise    *)
(* engine, the flow field, the line tracers and the SVG serializer.        *)
(*                                                                         *)
(* Numbers.  The program computes in IEEE-754 doubles.  The model computes *)
(* in fixed point: the integer n stands for the real n / ONE; products are *)
(* rounded to the nearest value (ties to even) and quotients are truncated *)
(* towards zero.  The linear-congruential                                  *)
(* generator is the exception: its state is an integer and its update is   *)
(* modelled exactly, with the two roundings to 53 significant bits that    *)
(* the double product and sum perform, and the 32-bit mask.                *)
(***************************************************************************)
EXTENDS Integers, Sequences, FiniteSets, TLC

\* the state of a sequence of generateFlowLines calls
VARIABLES
  opts,     \* the options object the caller holds
  cfg,      \* the destructured options of the running call (seed resolved)
  pc,       \* where the running call is: idle, poisson, basic, fill,
            \* swarm, hatch, return
  flowField, \* the FlowField of the running call
  rngState, \* the state of the seeded generator of the running call
  lines,    \* the lines collected so far
  spatialIndex, \* the SpatialGrid of the running call
  loc,      \* the other locals of the running call
  results   \* the values returned by the calls made so far

(***************************************************************************)
(* Fixed-point arithmetic                                                  *)
(***************************************************************************)
ONE == 1000 * 1000
KILO == 10 * 100
HALF == ONE \div 2
NaN == 0 - (2147483647)

Abs(a) == IF a < 0 THEN 0 - a ELSE a
Sign(a) == IF a < 0 THEN 0 - 1 ELSE IF a > 0 THEN 1 ELSE 0
Min(a, b) == IF a < b THEN a ELSE b
Max(a, b) == IF a > b THEN a ELSE b
Fix(n) == n * ONE
Floor(a) == a \div ONE
Ceil(a) == 0 - ((0 - a) \div ONE)

\* round q to even on a tie: rem is the remainder out of unit
RoundEven(q, rem, unit) ==
  IF 2 * rem > unit \/ (2 * rem = unit /\ q % 2 = 1) THEN q + 1 ELSE q

\* (hh * ONE + mid * KILO + low) / ONE, rounded
MulParts(hh, mid, low) ==
  RoundEven(hh + mid \div KILO, (mid % KILO) * KILO + low, ONE)

\* |a| * |b| / ONE for non-negative a and b, rounded to the nearest
\* representable value, ties to even, as an IEEE product is
MulAbs(a, b) ==
  MulParts((a \div KILO) * (b \div KILO),
           (a \div KILO) * (b % KILO) + (a % KILO) * (b \div KILO)
             + ((a % KILO) * (b % KILO)) \div KILO,
           ((a % KILO) * (b % KILO)) % KILO)

Mul(a, b) ==
  IF a = 0 \/ b = 0 THEN 0
  ELSE IF (a < 0) = (b < 0) THEN MulAbs(Abs(a), Abs(b))
  ELSE 0 - MulAbs(Abs(a), Abs(b))
Sq(a) == MulAbs(Abs(a), Abs(a))

\* |a| * ONE / |b|, truncated, for a >= 0 and 0 < b <= 2 * ONE (long
\* division, base KILO); r0 and r1 are the running remainders
DivDigits(a, b, r0, r1) ==
  (a \div b) * ONE + ((r0 * KILO) \div b) * KILO + (r1 * KILO) \div b

RECURSIVE DivAbs(_, _)
DivAbs(a, b) ==
  IF b > 2 * ONE THEN DivAbs(a \div 2, b \div 2)
  ELSE DivDigits(a, b, a % b, ((a % b) * KILO) % b)

\* a / b as the program's doubles give it: 0 / 0 is NaN
Div(a, b) ==
  IF b = 0 THEN NaN
  ELSE IF (a < 0) = (b < 0) THEN DivAbs(Abs(a), Abs(b))
  ELSE 0 - DivAbs(Abs(a), Abs(b))

\* floor of the square root of a non-negative integer
RECURSIVE IsqrtBits(_, _, _)
IsqrtBits(n, r, bit) ==
  IF bit = 0 THEN r
  ELSE IsqrtBits(n,
                 IF r + bit <= 46340 /\ (r + bit) * (r + bit) <= n
                   THEN r + bit ELSE r,
                 bit \div 2)
Isqrt(n) == IsqrtBits(n, 0, 32768)

\* the first-order correction of the root r of a
SqrtFrom(a, r) == r * KILO + ((a - r * r) * (KILO \div 2)) \div r

\* Math.sqrt on fixed point: sqrt(a / ONE) * ONE = sqrt(a * ONE)
Sqrt(a) ==
  IF a <= 2147 THEN Isqrt(a * ONE)
  ELSE IF a <= 214748 THEN Isqrt(a * 10000) * 10
  ELSE SqrtFrom(a, Isqrt(a))

(***************************************************************************)
(* The seeded generator: s = (s * 1103515245 + 12345) & 0x7fffffff          *)
(* The product and the sum are doubles: each is rounded to 53 significant   *)
(* bits (ties to even) before ToInt32 and the mask take the low 31 bits.    *)
(* Numbers below 2^64 are held as four digits of 16 bits, lowest first.     *)
(***************************************************************************)
LcgMultiplier == 1103515245
LcgIncrement == 12345
LcgMask == 2147483647
B16 == 2 ^ 16
B15 == 2 ^ 15

RECURSIVE BitLen(_)
BitLen(n) == IF n = 0 THEN 0 ELSE 1 + BitLen(n \div 2)

\* carries propagated through the four digits
Carry3(d1, e1, e2, d4) == <<d1 % B16, e1 % B16, e2 % B16, d4 + e2 \div B16>>
Carry2(d1, e1, d3, d4) == Carry3(d1, e1, d3 + e1 \div B16, d4)
Carry(d) == Carry2(d[1], d[2] + d[1] \div B16, d[3], d[4])

\* the exact product s * LcgMultiplier, 0 <= s < 2^31
ProductDigits(t0, t1, t2) == <<t0 % B16, t1 % B16, t2 % B16, t2 \div B16>>
ProductHigh(t0, t1, hh) == ProductDigits(t0, t1, hh + t1 \div B16)
ProductMid(t0, mid, hh) == ProductHigh(t0, mid + t0 \div B16, hh)
LcgProduct(s) ==
  ProductMid((s % B16) * (LcgMultiplier % B16),
             (s % B16) * (LcgMultiplier \div B16)
               + (s \div B16) * (LcgMultiplier % B16),
             (s \div B16) * (LcgMultiplier \div B16))

\* round-to-nearest-even to 53 significant bits, as a double holds the
\* value; unit is the weight of the last kept bit
RoundAt(d, unit) ==
  Carry(<<RoundEven(d[1] \div unit, d[1] % unit, unit) * unit,
          d[2], d[3], d[4]>>)
Round53(d) ==
  IF d[4] = 0 \/ 48 + BitLen(d[4]) <= 53 THEN d
  ELSE RoundAt(d, 2 ^ (BitLen(d[4]) - 5))

LcgAdd(prod) ==
  Round53(Carry(<<prod[1] + LcgIncrement, prod[2], prod[3], prod[4]>>))
LcgLow31(sum) == (sum[2] % B15) * B16 + sum[1]
LcgNext(s) == LcgLow31(LcgAdd(Round53(LcgProduct(s))))

\* s / 0x7fffffff in fixed point: floor(s * ONE / (2^31 - 1)); s * ONE is
\* formed in digits of 15 bits and split as hi * 2^31 + lo
RandomSplit(lo, hi) == hi + (IF lo >= LcgMask - hi THEN 1 ELSE 0)
RandomC3(c0, c1, c2, c3) ==
  RandomSplit((c0 % B15) + (c1 % B15) * B15 + ((c2 % B15) % 2) * (B15 * B15),
              (c2 % B15) \div 2 + c3 * (B15 \div 2))
RandomC2(c0, c1, c2, t3) == RandomC3(c0, c1, c2, t3 + c2 \div B15)
RandomC1(c0, c1, t2, t3) == RandomC2(c0, c1, t2 + c1 \div B15, t3)
RandomC0(c0, t1, t2, t3) == RandomC1(c0, t1 + c0 \div B15, t2, t3)
RandomDigits(s0, s1, s2, r0, r1) ==
  RandomC0(s0 * r0, s0 * r1 + s1 * r0, s1 * r1 + s2 * r0, s2 * r1)
Random(s) ==
  RandomDigits(s % B15, (s \div B15) % B15, s \div (B15 * B15),
               ONE % B15, ONE \div B15)

(***************************************************************************)
(* The noise engine (noise.ts): SimplexNoise                               *)
(***************************************************************************)
\* the base permutation table p
P ==
  << 151, 160, 137, 91, 90, 15, 131, 13, 201, 95, 96, 53, 194, 233, 7, 225,
     140, 36, 103, 30, 69, 142, 8, 99, 37, 240, 21, 10, 23, 190, 6, 148,
     247, 120, 234, 75, 0, 26, 197, 62, 94, 252, 219, 203, 117, 35, 11, 32,
     57, 177, 33, 88, 237, 149, 56, 87, 174, 20, 125, 136, 171, 168, 68, 175,
     74, 165, 71, 134, 139, 48, 27, 166, 77, 146, 158, 231, 83, 111, 229, 122,
     60, 211, 133, 230, 220, 105, 92, 41, 55, 46, 245, 40, 244, 102, 143, 54,
     65, 25, 63, 161, 1, 216, 80, 73, 209, 76, 132, 187, 208, 89, 18, 169,
     200, 196, 135, 130, 116, 188, 159, 86, 164, 100, 109, 198, 173, 186, 3, 64,
     52, 217, 226, 250, 124, 123, 5, 202, 38, 147, 118, 126, 255, 82, 85, 212,
     207, 206, 59, 227, 47, 16, 58, 17, 182, 189, 28, 42, 223, 183, 170, 213,
     119, 248, 152, 2, 44, 154, 163, 70, 221, 153, 101, 155, 167, 43, 172, 9,
     129, 22, 39, 253, 19, 98, 108, 110, 79, 113, 224, 232, 178, 185, 112, 104,
     218, 246, 97, 228, 251, 34, 242, 193, 238, 210, 144, 12, 191, 179, 162, 241,
     81, 51, 145, 235, 249, 14, 239, 107, 49, 192, 214, 31, 181, 199, 106, 157,
     184, 84, 204, 176, 115, 121, 50, 45, 127, 4, 150, 254, 138, 236, 205, 93,
     222, 114, 67, 29, 24, 72, 243, 141, 128, 195, 78, 66, 215, 61, 156, 180 >>

\* the gradient vectors grad2
Grad2 ==
  << <<1, 1>>, <<0 - 1, 1>>, <<1, 0 - 1>>, <<0 - 1, 0 - 1>>,
     <<1, 0>>, <<0 - 1, 0>>, <<0, 1>>, <<0, 0 - 1>> >>

\* the constructor's seeded shuffle of seedPerm (st holds seedPerm and s).
\* ShuffleAt is the step of the loop at index i, s1 the fresh generator
\* state.  ShuffleRange runs the steps for i = hi down to lo, the upper half
\* of the range before the lower half.
ShuffleSwap(perm, i, j, s1) ==
  [perm |-> [perm EXCEPT ![i + 1] = perm[j + 1], ![j + 1] = perm[i + 1]],
   s |-> s1]
ShuffleAt(st, i, s1) == ShuffleSwap(st.perm, i, s1 % (i + 1), s1)

RECURSIVE ShuffleRange(_, _, _)
ShuffleLower(next, hi, lo) ==
  IF next.s >= 0 THEN ShuffleRange(next, hi, lo) ELSE next
ShuffleRange(st, hi, lo) ==
  IF hi < lo THEN st
  ELSE IF hi = lo THEN ShuffleAt(st, hi, LcgNext(st.s))
  ELSE ShuffleLower(ShuffleRange(st, hi, (hi + lo) \div 2 + 1),
                    (hi + lo) \div 2, lo)

\* new SimplexNoise(seed): the shuffled table; perm[i] = seedPerm[i & 255]
SimplexShuffle(seed) == ShuffleRange([perm |-> P, s |-> seed], 255, 1).perm

\* the tables of the seeds the option space uses, built once
RECURSIVE SimplexTables(_)
SimplexTableAt(seeds, sd) ==
  IF seeds = {sd} THEN sd :> SimplexShuffle(sd)
  ELSE (sd :> SimplexShuffle(sd)) @@ SimplexTables(seeds \ {sd})
SimplexTables(seeds) == SimplexTableAt(seeds, CHOOSE sd \in seeds : TRUE)
\* the offsets the modes add to the seed for their own generators
NoiseOffsets == {11111, 22222, 33333, 1111, 2222, 3333, 4444}
NoiseSeeds ==
  {0, 42, 230538014, 16531, 999999, 42 + 12345, 42 + 54321, 42 + 99999}
    \cup {sd + k : sd \in {42, 16531, 999999}, k \in NoiseOffsets}
SimplexTable == SimplexTables(NoiseSeeds)
SimplexNoise(seed) ==
  IF seed \in NoiseSeeds THEN SimplexTable[seed] ELSE SimplexShuffle(seed)
PermAt(perm, i) == perm[(i % 256) + 1]
PermMod8At(perm, i) == PermAt(perm, i) % 8

\* dot2
Dot2(g, x, y) == g[1] * x + g[2] * y

\* 0.5 * (sqrt(3) - 1) and (3 - sqrt(3)) / 6
F2 == 366025
G2 == 211324

\* one corner's contribution to noise2D: t = 0.5 - x*x - y*y
CornerTerm(t, g, x, y) ==
  IF t >= 0 THEN Mul(Sq(Sq(t)), Dot2(g, x, y)) ELSE 0
CornerNoise(g, x, y) == CornerTerm(HALF - Sq(x) - Sq(y), g, x, y)

\* noise2D from the three corners: i1, j1 pick the middle corner
NoiseCorners(perm, ii, jj, x0, y0, i1, j1) ==
  70 * (CornerNoise(Grad2[PermMod8At(perm, ii + PermAt(perm, jj)) + 1],
                    x0, y0)
        + CornerNoise(Grad2[PermMod8At(perm, ii + i1
                                               + PermAt(perm, jj + j1)) + 1],
                      x0 - Fix(i1) + G2, y0 - Fix(j1) + G2)
        + CornerNoise(Grad2[PermMod8At(perm, ii + 1
                                               + PermAt(perm, jj + 1)) + 1],
                      x0 - ONE + 2 * G2, y0 - ONE + 2 * G2))
NoiseSimplex(perm, i, j, x0, y0) ==
  NoiseCorners(perm, i % 256, j % 256, x0, y0,
               IF x0 > y0 THEN 1 ELSE 0, IF x0 > y0 THEN 0 ELSE 1)
NoiseCell(perm, x, y, i, j) ==
  NoiseSimplex(perm, i, j, x - (Fix(i) - (i + j) * G2),
               y - (Fix(j) - (i + j) * G2))
NoiseSkew(perm, x, y, s) == NoiseCell(perm, x, y, Floor(x + s), Floor(y + s))
noise2D(perm, x, y) == NoiseSkew(perm, x, y, Mul(x + y, F2))

\* fbm: the octave loop, then value / maxValue
RECURSIVE FbmLoop(_, _, _, _, _, _, _, _, _, _)
FbmLoop(perm, x, y, i, octaves, persistence, lacunarity, acc, amplitude, frequency) ==
  IF i >= octaves THEN acc
  ELSE FbmLoop(perm, x, y, i + 1, octaves, persistence, lacunarity,
               [value |-> acc.value
                            + Mul(amplitude,
                                  noise2D(perm, Mul(x, frequency),
                                          Mul(y, frequency))),
                maxValue |-> acc.maxValue + amplitude],
               Mul(amplitude, persistence), Mul(frequency, lacunarity))

FbmResult(acc) == Div(acc.value, acc.maxValue)
fbm(perm, x, y, octaves, persistence, lacunarity) ==
  FbmResult(FbmLoop(perm, x, y, 0, octaves, persistence, lacunarity,
                    [value |-> 0, maxValue |-> 0], ONE, ONE))

(***************************************************************************)
(* Math.cos and Math.sin: the angle is taken to the nearest 64th of a turn *)
(***************************************************************************)
TwoPi == 6283185
CosQuarter ==
  << 1000000, 995185, 980785, 956940, 923880, 881921, 831470, 773010, 707107, 634393, 555570, 471397, 382683, 290285, 195090, 98017, 0 >>
CosIdx(k) ==
  LET m == k % 64
  IN IF m <= 16 THEN CosQuarter[m + 1]
     ELSE IF m <= 32 THEN 0 - CosQuarter[33 - m]
     ELSE IF m <= 48 THEN 0 - CosQuarter[m - 31]
     ELSE CosQuarter[65 - m]
AngleIdx(a) == (a * 64 + TwoPi \div 2) \div TwoPi
Cos(a) == CosIdx(AngleIdx(a))
Sin(a) == CosIdx(AngleIdx(a) - 16)

(***************************************************************************)
(* The flow field (flow-field.ts)                                          *)
(***************************************************************************)
Pt(x, y) == [x |-> x, y |-> y]

\* Math.ceil(a / b) for a >= 0 and b > 0
CeilDiv(a, b) == (a + b - 1) \div b

\* a vector scaled to unit length when its length len is positive
Scale(vx, vy, len) ==
  IF len > 0 THEN Pt(Div(vx, len), Div(vy, len)) ELSE Pt(vx, vy)
Normalize(vx, vy) == Scale(vx, vy, Sqrt(Sq(vx) + Sq(vy)))
NormalizeVec(v) == Normalize(v.x, v.y)

\* generateField, case 'normal': one cell's vector
AngleVector(angle) == Normalize(Cos(angle), Sin(angle))
NormalCell(perm, f, row, col) ==
  AngleVector(Mul(fbm(perm, Mul(col * f.resolution, f.noiseScale),
                      Mul(row * f.resolution, f.noiseScale),
                      f.octaves, f.persistence, f.lacunarity),
                  TwoPi))

\* new FlowField(options): the dimensions and the cached grid of vectors
FieldGrid(f, cols, rows, perm) ==
  [width |-> f.width, height |-> f.height, resolution |-> f.resolution,
   cols |-> cols, rows |-> rows,
   field |-> [row \in 0 .. rows - 1 |->
               [col \in 0 .. cols - 1 |-> NormalCell(perm, f, row, col)]]]
FlowField(f) ==
  FieldGrid(f, CeilDiv(f.width, f.resolution),
            CeilDiv(f.height, f.resolution), SimplexNoise(f.seed))

getBaseVector(field, x, y) ==
  field.field[Max(0, Min(y \div field.resolution, field.rows - 1))]
             [Max(0, Min(x \div field.resolution, field.cols - 1))]

\* getVector: the attractor loop, then the normalisation
AttractorPull(a, v, dx, dy, dist, influence) ==
  Pt(v.x + Mul(Div(dx, dist), influence), v.y + Mul(Div(dy, dist), influence))
AttractorAt(a, v, dx, dy, dist) ==
  IF dist < a.radius /\ dist > 0
    THEN AttractorPull(a, v, dx, dy, dist,
                       Mul(Sq(ONE - Div(dist, a.radius)), a.strength))
    ELSE v
AttractorStep(a, v, dx, dy) == AttractorAt(a, v, dx, dy, Sqrt(Sq(dx) + Sq(dy)))

RECURSIVE AttractorLoop(_, _, _, _, _)
AttractorLoop(attractors, k, x, y, v) ==
  IF k > Len(attractors) THEN v
  ELSE AttractorLoop(attractors, k + 1, x, y,
                     AttractorStep(attractors[k], v, attractors[k].x - x,
                                   attractors[k].y - y))

getVector(field, x, y, attractors) ==
  IF Len(attractors) > 0
    THEN NormalizeVec(AttractorLoop(attractors, 1, x, y,
                                    getBaseVector(field, x, y)))
    ELSE getBaseVector(field, x, y)

isInBounds(field, x, y, margin) ==
  /\ x >= margin
  /\ x < field.width - margin
  /\ y >= margin
  /\ y < field.height - margin

(***************************************************************************)
(* The field modes of generateField (flow-field.ts) and the noise          *)
(* functions they sample.  NaN spreads through every operation on it.      *)
(***************************************************************************)
IsNaN(v) == v = NaN
NaNVector == Pt(NaN, NaN)

\* curl2D: central differences of fbm, epsilon = 0.0001
CurlStep == ONE \div 10000
CentralDifference(a, b) ==
  IF IsNaN(a) \/ IsNaN(b) THEN NaN ELSE Div(a - b, 2 * CurlStep)
Negated(v) == IF IsNaN(v) THEN NaN ELSE 0 - v
curl2D(perm, x, y, octaves, persistence, lacunarity) ==
  Pt(CentralDifference(fbm(perm, x, y + CurlStep, octaves, persistence,
                           lacunarity),
                       fbm(perm, x, y - CurlStep, octaves, persistence,
                           lacunarity)),
     Negated(CentralDifference(fbm(perm, x + CurlStep, y, octaves,
                                   persistence, lacunarity),
                               fbm(perm, x - CurlStep, y, octaves,
                                   persistence, lacunarity))))

\* ridged: the octave loop with offset 1
RECURSIVE RidgedLoop(_, _, _, _, _, _, _, _, _, _, _)
RidgedAdd(perm, x, y, i, octaves, persistence, lacunarity, value, amplitude, frequency, signal) ==
  RidgedLoop(perm, x, y, i + 1, octaves, persistence, lacunarity,
             value + Mul(signal, amplitude), Mul(amplitude, persistence),
             Mul(frequency, lacunarity), Min(ONE, Max(0, signal * 2)))
RidgedLoop(perm, x, y, i, octaves, persistence, lacunarity, value, amplitude, frequency, weight) ==
  IF i >= octaves THEN value
  ELSE RidgedAdd(perm, x, y, i, octaves, persistence, lacunarity, value,
                 amplitude, frequency,
                 Mul(Sq(ONE - Abs(noise2D(perm, Mul(x, frequency),
                                          Mul(y, frequency)))),
                     weight))
ridged(perm, x, y, octaves, persistence, lacunarity) ==
  RidgedLoop(perm, x, y, 0, octaves, persistence, lacunarity, 0, ONE, ONE,
             ONE)

\* warpedFbm: fbm sampled at coordinates displaced by two other samples
WarpedAt(perm, x, y, octaves, persistence, lacunarity, warpStrength, warpX, warpY) ==
  IF IsNaN(warpX) \/ IsNaN(warpY) THEN NaN
  ELSE fbm(perm, x + Mul(warpX, warpStrength), y + Mul(warpY, warpStrength),
           octaves, persistence, lacunarity)
warpedFbm(perm, x, y, octaves, persistence, lacunarity, warpStrength) ==
  WarpedAt(perm, x, y, octaves, persistence, lacunarity, warpStrength,
           fbm(perm, x, y, octaves, persistence, lacunarity),
           fbm(perm, x + 5200 * KILO, y + 1300 * KILO, octaves, persistence,
               lacunarity))

\* the vector of an angle given in turns
TurnVector(turns) ==
  IF IsNaN(turns) THEN NaNVector
  ELSE Pt(Cos(Mul(turns, TwoPi)), Sin(Mul(turns, TwoPi)))

\* case 'spiral': the curl plus the pull towards the centre
SpiralPull(curl, dx, dy, dist, spiralStrength) ==
  IF IsNaN(curl.x) \/ IsNaN(curl.y) THEN NaNVector
  ELSE IF dist > 0
    THEN Pt(curl.x + Mul(Div(dx, dist), spiralStrength),
            curl.y + Mul(Div(dy, dist), spiralStrength))
    ELSE curl
SpiralVector(curl, dx, dy, spiralStrength) ==
  SpiralPull(curl, dx, dy, Sqrt(Sq(dx) + Sq(dy)), spiralStrength)

\* the switch on fieldMode for the cell at (x, y), sampled at (nx, ny)
ModeVector(perm, f, x, y, nx, ny) ==
  CASE f.fieldMode = "curl" ->
         curl2D(perm, nx, ny, f.octaves, f.persistence, f.lacunarity)
    [] f.fieldMode = "spiral" ->
         SpiralVector(curl2D(perm, nx, ny, f.octaves, f.persistence,
                             f.lacunarity),
                      f.width \div 2 - x, f.height \div 2 - y,
                      f.spiralStrength)
    [] f.fieldMode = "turbulent" ->
         curl2D(perm, nx * 2, ny * 2, f.octaves + 2,
                Mul(f.persistence, 1200 * KILO), f.lacunarity)
    [] f.fieldMode = "ridged" ->
         TurnVector(ridged(perm, nx, ny, f.octaves, f.persistence,
                           f.lacunarity))
    [] f.fieldMode = "warped" ->
         TurnVector(warpedFbm(perm, nx, ny, f.octaves, f.persistence,
                              f.lacunarity, f.warpStrength))
    [] OTHER ->
         TurnVector(fbm(perm, nx, ny, f.octaves, f.persistence,
                        f.lacunarity))

\* the normalisation at the end of the cell loop: len > 0 is false for a
\* zero vector and for NaN
CellVector(v) ==
  IF IsNaN(v.x) \/ IsNaN(v.y) THEN NaNVector ELSE Normalize(v.x, v.y)
ModeCell(perm, f, x, y) ==
  CellVector(ModeVector(perm, f, x, y, Mul(x, f.noiseScale),
                        Mul(y, f.noiseScale)))
generateField(f, cols, rows, perm) ==
  [row \in 0 .. rows - 1 |->
     [col \in 0 .. cols - 1 |->
        ModeCell(perm, f, col * f.resolution, row * f.resolution)]]

(***************************************************************************)
(* SpatialGrid (flow-lines.ts): the proximity index.  The Map of buckets   *)
(* is kept as the list of stored points, each with the key of its bucket.  *)
(***************************************************************************)
NullGrid == [cellSize |-> 0, entries |-> <<>>]
SpatialGrid(cellSize) == [cellSize |-> cellSize, entries |-> <<>>]
IsGrid(g) == g.cellSize # 0

\* Math.floor(a / b) for b > 0: the quotient is rounded to the nearest
\* representable value before the floor, so a value within half a unit of
\* the last place below a multiple of b lands on the multiple
FloorQuot(a, b) ==
  IF (a \div b + 1) * b - a <= b \div (2 * ONE) THEN a \div b + 1
  ELSE a \div b

\* Math.ceil(a / b) for a >= 0 and b > 0, the quotient rounded likewise: a
\* value within half a unit of the last place above a multiple of b lands
\* on the multiple
CeilQuot(a, b) ==
  IF a - (a \div b) * b <= b \div (2 * ONE) THEN a \div b ELSE a \div b + 1

\* getKey: Math.floor(x / cellSize), Math.floor(y / cellSize)
getKey(g, x, y) == <<FloorQuot(x, g.cellSize), FloorQuot(y, g.cellSize)>>

add(g, x, y) ==
  [g EXCEPT !.entries = Append(@, [key |-> getKey(g, x, y), x |-> x, y |-> y])]

addLine(g, points) ==
  [g EXCEPT !.entries =
     @ \o [i \in 1 .. Len(points) |->
             [key |-> getKey(g, points[i].x, points[i].y),
              x |-> points[i].x, y |-> points[i].y]]]

\* the scan of the buckets within searchRadius cells of the query's cell
NearbyIn(g, x, y, cell, distSq, searchRadius) ==
  \E i \in 1 .. Len(g.entries) :
    /\ Abs(g.entries[i].key[1] - cell[1]) <= searchRadius
    /\ Abs(g.entries[i].key[2] - cell[2]) <= searchRadius
    /\ Sq(g.entries[i].x - x) + Sq(g.entries[i].y - y) < distSq

hasNearby(g, x, y, distance) ==
  NearbyIn(g, x, y, getKey(g, x, y), Sq(distance),
           CeilQuot(distance, g.cellSize))

(***************************************************************************)
(* Start points and line tracing (flow-lines.ts)                           *)
(***************************************************************************)
\* the point made of two draws s1, s2 of the generator
StartPoint(width, height, margin, s1, s2) ==
  Pt(margin + Mul(Random(s1), width - 2 * margin),
     margin + Mul(Random(s2), height - 2 * margin))

\* generateStartPoints: the loop from i, with the generator state s
RECURSIVE StartPointsLoop(_, _, _, _, _, _, _)
StartPointsDraw(width, height, count, margin, i, s1, s2, points) ==
  StartPointsLoop(width, height, count, margin, i + 1, s2,
                  Append(points, StartPoint(width, height, margin, s1, s2)))
StartPointsNext(width, height, count, margin, i, s1, points) ==
  StartPointsDraw(width, height, count, margin, i, s1, LcgNext(s1), points)
StartPointsLoop(width, height, count, margin, i, s, points) ==
  IF i >= count THEN [points |-> points, s |-> s]
  ELSE StartPointsNext(width, height, count, margin, i, LcgNext(s), points)

\* a generator that goes on from the state the last run left
StartPointsLeftover(width, height, count, margin, seed) ==
  StartPointsLoop(width, height, count, margin, 0, rngState, <<>>)
generateStartPoints(width, height, count, margin, seed) ==
  StartPointsLoop(width, height, count, margin, 0, seed, <<>>)

\* the tracing loop of traceLine and of both halves of
\* traceLineBidirectional; dir is 1 forwards and -1 backwards; t holds
\* the tracer's arguments
RECURSIVE TraceLoop(_, _, _, _, _)
TraceNext(t, points, next, dir, i) ==
  IF ~isInBounds(t.field, next.x, next.y, t.margin) THEN points
  ELSE IF /\ IsGrid(t.spatialGrid)
          /\ t.separationDistance # 0
          /\ hasNearby(t.spatialGrid, next.x, next.y, t.separationDistance)
    THEN points
  ELSE TraceLoop(t, Append(points, next), next, dir, i + 1)
TraceMove(t, points, current, vector, dir, i) ==
  TraceNext(t, points,
            Pt(current.x + dir * Mul(vector.x, t.stepLength),
               current.y + dir * Mul(vector.y, t.stepLength)),
            dir, i)
TraceLoop(t, points, current, dir, i) ==
  IF i >= t.maxSteps THEN points
  ELSE TraceMove(t, points, current,
                 getVector(t.field, current.x, current.y, t.attractors),
                 dir, i)

TraceArgs(field, stepLength, maxSteps, margin, attractors, spatialGrid, separationDistance) ==
  [field |-> field, stepLength |-> stepLength, maxSteps |-> maxSteps,
   margin |-> margin, attractors |-> attractors, spatialGrid |-> spatialGrid,
   separationDistance |-> separationDistance]

traceLine(field, start, stepLength, maxSteps, margin, attractors, spatialGrid, separationDistance) ==
  TraceLoop(TraceArgs(field, stepLength, maxSteps, margin, attractors,
                      spatialGrid, separationDistance),
            <<start>>, start, 1, 0)

Reverse(seq) == [i \in 1 .. Len(seq) |-> seq[Len(seq) + 1 - i]]

\* the two halves joined without reversing the backward one
traceLineUnreversed(field, start, stepLength, maxSteps, margin, attractors, spatialGrid, separationDistance) ==
  TraceLoop(TraceArgs(field, stepLength, maxSteps, margin, attractors,
                      spatialGrid, separationDistance),
            <<>>, start, 0 - 1, 0)
    \o TraceLoop(TraceArgs(field, stepLength, maxSteps, margin, attractors,
                           spatialGrid, separationDistance),
                 <<start>>, start, 1, 0)

traceLineBidirectional(field, start, stepLength, maxSteps, margin, attractors, spatialGrid, separationDistance) ==
  Reverse(TraceLoop(TraceArgs(field, stepLength, maxSteps, margin, attractors,
                              spatialGrid, separationDistance),
                    <<>>, start, 0 - 1, 0))
    \o TraceLoop(TraceArgs(field, stepLength, maxSteps, margin, attractors,
                           spatialGrid, separationDistance),
                 <<start>>, start, 1, 0)

\* one Chaikin pass: the first point, a 25% and a 75% point per segment,
\* the last point
QUARTER == ONE \div 4
Blend(wa, a, wb, b) ==
  Pt(Mul(wa, a.x) + Mul(wb, b.x), Mul(wa, a.y) + Mul(wb, b.y))
\* corner cutting that does not keep the two end points
ChaikinOpen(result) ==
  [k \in 1 .. 2 * (Len(result) - 1) |->
     IF k % 2 = 1
       THEN Blend(3 * QUARTER, result[(k + 1) \div 2], QUARTER,
                  result[(k + 1) \div 2 + 1])
       ELSE Blend(QUARTER, result[k \div 2], 3 * QUARTER,
                  result[k \div 2 + 1])]
ChaikinPass(result) ==
  [k \in 1 .. 2 * Len(result) |->
     IF k = 1 THEN result[1]
     ELSE IF k = 2 * Len(result) THEN result[Len(result)]
     ELSE IF k % 2 = 0
       THEN Blend(3 * QUARTER, result[k \div 2], QUARTER,
                  result[k \div 2 + 1])
       ELSE Blend(QUARTER, result[k \div 2], 3 * QUARTER,
                  result[k \div 2 + 1])]

RECURSIVE SmoothLoop(_, _, _)
SmoothLoop(result, iter, iterations) ==
  IF iter >= iterations THEN result
  ELSE SmoothLoop(ChaikinPass(result), iter + 1, iterations)

\* smoothLine with the iteration count rounded down
smoothLineFloor(points, strength) ==
  IF Len(points) < 3 THEN points
  ELSE SmoothLoop(points, 0, Floor(3 * strength))

smoothLine(points, strength) ==
  IF Len(points) < 3 THEN points
  ELSE SmoothLoop(points, 0, Ceil(3 * strength))

(***************************************************************************)
(* generatePoissonDiskPoints (flow-lines.ts).  The sampler's locals are    *)
(* the record ps; one while-iteration is PoissonIteration.                 *)
(***************************************************************************)
Pi == 3141593
PoissonK == 30

\* the sampler after its first point
PoissonFirst(g, firstPoint, gx, gy, s) ==
  [minDist |-> g.minDist, cellSize |-> g.cellSize,
   gridWidth |-> g.gridWidth, gridHeight |-> g.gridHeight,
   grid |-> [cy \in 0 .. g.gridHeight - 1 |->
              [cx \in 0 .. g.gridWidth - 1 |->
                 IF /\ gx >= 0 /\ gx < g.gridWidth /\ gy >= 0
                    /\ gy < g.gridHeight /\ cx = gx /\ cy = gy
                   THEN <<firstPoint>> ELSE <<>>]],
   points |-> <<firstPoint>>, activeList |-> <<firstPoint>>,
   s |-> s, targetCount |-> g.targetCount, width |-> g.width,
   height |-> g.height, margin |-> g.margin]
PoissonPlace(g, firstPoint, s) ==
  PoissonFirst(g, firstPoint, (firstPoint.x - g.margin) \div g.cellSize,
               (firstPoint.y - g.margin) \div g.cellSize, s)
PoissonDraw(g, s1, s2) ==
  PoissonPlace(g, StartPoint(g.width, g.height, g.margin, s1, s2), s2)
PoissonSeed(g, s1) == PoissonDraw(g, s1, LcgNext(s1))
PoissonGrid(width, height, targetCount, margin, minDist, cellSize) ==
  [minDist |-> minDist, cellSize |-> cellSize,
   gridWidth |-> CeilDiv(width - 2 * margin, cellSize),
   gridHeight |-> CeilDiv(height - 2 * margin, cellSize),
   targetCount |-> targetCount, width |-> width, height |-> height,
   margin |-> margin]
PoissonCells(width, height, targetCount, margin, minDist) ==
  PoissonGrid(width, height, targetCount, margin, minDist,
              Div(minDist, Sqrt(2 * ONE)))
PoissonInit(width, height, targetCount, margin, seed) ==
  PoissonSeed(PoissonCells(width, height, targetCount, margin,
                Mul(Sqrt(Div(Mul(width - 2 * margin, height - 2 * margin),
                             targetCount * Pi)),
                    3 * HALF)),
              LcgNext(seed))

\* the distance test against half of minDist
PoissonNearHalf(ps, candidate, neighbor) ==
  Sqrt(Sq(neighbor.x - candidate.x) + Sq(neighbor.y - candidate.y))
    < ps.minDist \div 2

PoissonNear(ps, candidate, neighbor) ==
  Sqrt(Sq(neighbor.x - candidate.x) + Sq(neighbor.y - candidate.y))
    < ps.minDist
PoissonTooClose(ps, candidate, cgx, cgy) ==
  \E dy \in (0 - 2) .. 2, dx \in (0 - 2) .. 2 :
    /\ cgx + dx >= 0 /\ cgx + dx < ps.gridWidth
    /\ cgy + dy >= 0 /\ cgy + dy < ps.gridHeight
    /\ ps.grid[cgy + dy][cgx + dx] # <<>>
    /\ PoissonNear(ps, candidate, ps.grid[cgy + dy][cgx + dx][1])

\* one candidate around an active point: r is the outcome so far
PoissonCheck(ps, activePoint, s2, candidate) ==
  IF \/ candidate.x < ps.margin \/ candidate.x >= ps.width - ps.margin
     \/ candidate.y < ps.margin \/ candidate.y >= ps.height - ps.margin
    THEN [found |-> FALSE, candidate |-> activePoint, s |-> s2]
  ELSE IF PoissonTooClose(ps, candidate,
                          (candidate.x - ps.margin) \div ps.cellSize,
                          (candidate.y - ps.margin) \div ps.cellSize)
    THEN [found |-> FALSE, candidate |-> activePoint, s |-> s2]
  ELSE [found |-> TRUE, candidate |-> candidate, s |-> s2]
PoissonCandidate(ps, activePoint, s2, angle, dist) ==
  PoissonCheck(ps, activePoint, s2,
               Pt(activePoint.x + Mul(Cos(angle), dist),
                  activePoint.y + Mul(Sin(angle), dist)))
PoissonTry(ps, activePoint, s1, s2) ==
  PoissonCandidate(ps, activePoint, s2, Mul(Random(s1), Pi) * 2,
                   ps.minDist + Mul(Random(s2), ps.minDist))
PoissonNextTry(ps, activePoint, s1) ==
  PoissonTry(ps, activePoint, s1, LcgNext(s1))

\* the candidate loop, attempts lo .. hi, left as soon as one is found
\* (the range is halved to keep the evaluation shallow)
RECURSIVE PoissonAttemptRange(_, _, _, _, _)
PoissonUpper(ps, activePoint, r, lo, hi) ==
  IF r.s >= 0 THEN PoissonAttemptRange(ps, activePoint, r, lo, hi) ELSE r
PoissonAttemptRange(ps, activePoint, r, lo, hi) ==
  IF r.found \/ lo > hi THEN r
  ELSE IF lo = hi THEN PoissonNextTry(ps, activePoint, LcgNext(r.s))
  ELSE PoissonUpper(ps, activePoint,
                    PoissonAttemptRange(ps, activePoint, r, lo,
                                        (lo + hi) \div 2),
                    (lo + hi) \div 2 + 1, hi)
PoissonAttempts(ps, activePoint, attempt, s, k) ==
  PoissonAttemptRange(ps, activePoint,
                      [found |-> FALSE, candidate |-> activePoint, s |-> s],
                      attempt, k - 1)

RemoveAt(seq, i) == SubSeq(seq, 1, i - 1) \o SubSeq(seq, i + 1, Len(seq))

PoissonActive(ps) ==
  Len(ps.activeList) > 0 /\ Len(ps.points) < ps.targetCount * 2

PoissonStore(ps, candidate, cgx, cgy, s) ==
  [ps EXCEPT !.points = Append(@, candidate),
             !.activeList = Append(@, candidate),
             !.grid = IF /\ cgx >= 0 /\ cgx < ps.gridWidth
                         /\ cgy >= 0 /\ cgy < ps.gridHeight
                        THEN [@ EXCEPT ![cgy][cgx] = <<candidate>>]
                        ELSE @,
             !.s = s]
PoissonOutcome(ps, activeIdx, r) ==
  IF r.found
    THEN PoissonStore(ps, r.candidate,
                      (r.candidate.x - ps.margin) \div ps.cellSize,
                      (r.candidate.y - ps.margin) \div ps.cellSize, r.s)
    ELSE [ps EXCEPT !.activeList = RemoveAt(@, activeIdx + 1), !.s = r.s]
PoissonPick(ps, activeIdx, s1) ==
  PoissonOutcome(ps, activeIdx,
                 PoissonAttempts(ps, ps.activeList[activeIdx + 1], 0, s1,
                                 PoissonK))
PoissonChoose(ps, s1) ==
  PoissonPick(ps, Floor(Random(s1) * Len(ps.activeList)), s1)
PoissonIteration(ps) == PoissonChoose(ps, LcgNext(ps.s))

Swap(seq, i, j) == [seq EXCEPT ![i] = seq[j], ![j] = seq[i]]

\* the closing Fisher-Yates shuffle, i counting down (1-based positions)
RECURSIVE PoissonShuffle(_, _, _)
PoissonSwap(points, i, s1) ==
  PoissonShuffle(Swap(points, i, Floor(Random(s1) * i) + 1), i - 1, s1)
PoissonShuffle(points, i, s) ==
  IF i <= 1 THEN [points |-> points, s |-> s]
  ELSE PoissonSwap(points, i, LcgNext(s))

PoissonSlice(ps, sh) ==
  [points |-> SubSeq(sh.points, 1, Min(ps.targetCount, Len(sh.points))),
   s |-> sh.s]
PoissonResult(ps) ==
  PoissonSlice(ps, PoissonShuffle(ps.points, Len(ps.points), ps.s))

(***************************************************************************)
(* Fill mode: generateStreamlines and its helpers (flow-lines.ts).  fc is  *)
(* the call's configuration (traceConfig and the other parameters), a      *)
(* noise that was not created is <<>>.                                     *)
(***************************************************************************)
\* the strongest smoothstep influence of the density points at (x, y)
DensityFalloff(dp, falloff) ==
  Mul(Mul(Mul(falloff, falloff), 3 * ONE - 2 * falloff), dp.strength)
DensityInfluence(dp, dist) ==
  IF dist < dp.radius
    THEN DensityFalloff(dp, ONE - Div(dist, dp.radius)) ELSE 0
RECURSIVE MaxInfluence(_, _, _, _, _)
MaxInfluence(densityPoints, k, x, y, maxInfluence) ==
  IF k > Len(densityPoints) THEN maxInfluence
  ELSE MaxInfluence(densityPoints, k + 1, x, y,
         Max(maxInfluence,
             DensityInfluence(densityPoints[k],
               Sqrt(Sq(x - densityPoints[k].x)
                    + Sq(y - densityPoints[k].y)))))

NoiseMultiplier(noiseVal, densityVariation) ==
  200 * KILO + Mul(Mul(noiseVal + ONE, HALF),
                   ONE + Mul(densityVariation, 3 * HALF))
NoiseSeparation(x, y, baseSeparation, densityNoise, densityNoiseScale, densityVariation) ==
  IF densityNoise # <<>> /\ densityVariation > 0
    THEN Mul(baseSeparation,
             NoiseMultiplier(fbm(densityNoise, Mul(x, densityNoiseScale),
                                 Mul(y, densityNoiseScale), 3, HALF, 2 * ONE),
                             densityVariation))
    ELSE baseSeparation
PointSeparation(targetSeparation, densityPoints, maxInfluence) ==
  IF Len(densityPoints) > 0 /\ maxInfluence > 0
    THEN Mul(targetSeparation, ONE - Mul(maxInfluence, 900 * KILO))
    ELSE targetSeparation

calculateSeparation(x, y, baseSeparation, minSeparation, densityPoints, densityNoise, densityNoiseScale, densityVariation) ==
  Max(minSeparation,
      PointSeparation(NoiseSeparation(x, y, baseSeparation, densityNoise,
                                      densityNoiseScale, densityVariation),
                      densityPoints,
                      MaxInfluence(densityPoints, 1, x, y, 0)))

calculateSeparationWithConfig(x, y, baseSeparation, density) ==
  calculateSeparation(x, y, baseSeparation, density.minSeparation,
                      density.points, density.noise, density.noiseScale,
                      density.variation)

\* Math.pow(a, 1.5) for a >= 0
Pow15(a) == Mul(a, Sqrt(a))

EdgeVector(influence, minDist, distToLeft, distToRight, distToTop, distToBottom) ==
  IF minDist = distToLeft THEN Pt(0 - influence, 0)
  ELSE IF minDist = distToRight THEN Pt(influence, 0)
  ELSE IF minDist = distToTop THEN Pt(0, 0 - influence)
  ELSE IF minDist = distToBottom THEN Pt(0, influence)
  ELSE Pt(0, 0)
EdgePull(strength, threshold, minDist, distToLeft, distToRight, distToTop, distToBottom) ==
  IF minDist > threshold THEN Pt(0, 0)
  ELSE EdgeVector(Mul(strength, Pow15(ONE - Div(minDist, threshold))),
                  minDist, distToLeft, distToRight, distToTop, distToBottom)
EdgeDistances(width, height, strength, distToLeft, distToRight, distToTop, distToBottom) ==
  EdgePull(strength, Mul(Min(width, height), 300 * KILO),
           Min(Min(distToLeft, distToRight), Min(distToTop, distToBottom)),
           distToLeft, distToRight, distToTop, distToBottom)
calculateEdgeInfluence(x, y, width, height, margin, strength) ==
  EdgeDistances(width, height, strength, x - margin, (width - margin) - x,
                y - margin, (height - margin) - y)

\* computeStep of traceStreamlineVariable, in the order of its statements;
\* tr holds the tracer's arguments
Stop(next) == [next |-> next, shouldStop |-> TRUE]

StepCollide(tr, next, localSep) ==
  IF hasNearby(tr.spatialGrid, next.x, next.y, Mul(localSep, HALF))
    THEN Stop(next) ELSE [next |-> next, shouldStop |-> FALSE]
StepCheck(tr, next) ==
  IF ~isInBounds(tr.field, next.x, next.y, tr.margin) THEN Stop(next)
  ELSE IF ~tr.skipCollisionCheck
    THEN StepCollide(tr, next,
                     calculateSeparationWithConfig(next.x, next.y,
                       tr.baseSeparation, tr.density))
  ELSE [next |-> next, shouldStop |-> FALSE]

WobbleShift(tr, next, perpX, perpY, wobbleAmount) ==
  StepCheck(tr, Pt(next.x + Mul(perpX, wobbleAmount),
                   next.y + Mul(perpY, wobbleAmount)))
WobbleBlend(tr, vector, next, direction, highFreqWobble, lowFreqWobble) ==
  WobbleShift(tr, next,
              IF direction = 1 THEN 0 - vector.y ELSE vector.y,
              IF direction = 1 THEN vector.x ELSE 0 - vector.x,
              Mul(Mul(Mul(Mul(highFreqWobble, 600 * KILO)
                          + Mul(lowFreqWobble, 400 * KILO),
                          tr.organic.wobble),
                      tr.stepLength),
                  3 * ONE))
StepWobble(tr, current, vector, next, direction, stepIdx) ==
  IF tr.organic.wobbleNoise # <<>> /\ tr.organic.wobble > 0
    THEN WobbleBlend(tr, vector, next, direction,
           noise2D(tr.organic.wobbleNoise,
                   Mul(current.x, 20 * KILO)
                     + Mul(Fix(direction * stepIdx), 100 * KILO),
                   Mul(current.y, 20 * KILO)),
           noise2D(tr.organic.wobbleNoise,
                   Mul(Mul(current.x, 20 * KILO), 200 * KILO)
                     + Mul(Fix(direction * stepIdx), 20 * KILO),
                   Mul(Mul(current.y, 20 * KILO), 200 * KILO)))
    ELSE StepCheck(tr, next)
StepMove(tr, current, vector, effectiveStep, direction, stepIdx) ==
  StepWobble(tr, current, vector,
             Pt(current.x + Mul(direction * vector.x, effectiveStep),
                current.y + Mul(direction * vector.y, effectiveStep)),
             direction, stepIdx)

Renormalized(vx, vy, newLen) ==
  IF newLen > KILO THEN Pt(Div(vx, newLen), Div(vy, newLen)) ELSE Pt(vx, vy)
EdgeBent(vector, edgeInfluence) ==
  Renormalized(vector.x + edgeInfluence.x, vector.y + edgeInfluence.y,
               Sqrt(Sq(vector.x + edgeInfluence.x)
                    + Sq(vector.y + edgeInfluence.y)))
StepEdge(tr, current, vector, effectiveStep, direction, stepIdx) ==
  IF tr.organic.edgeAttraction > 0 /\ tr.canvasWidth > 0
     /\ tr.canvasHeight > 0
    THEN StepMove(tr, current,
                  EdgeBent(vector,
                           calculateEdgeInfluence(current.x, current.y,
                             tr.canvasWidth, tr.canvasHeight, tr.margin,
                             tr.organic.edgeAttraction)),
                  effectiveStep, direction, stepIdx)
    ELSE StepMove(tr, current, vector, effectiveStep, direction, stepIdx)

MinStepsBeforeFatigue == 10
Fatigued(tr, fatigueNoiseVal, randomVal) ==
  Mul(randomVal + ONE, HALF)
    < Mul(Mul(tr.organic.lineFatigue, 30 * KILO), ONE + fatigueNoiseVal)
StepFatigue(tr, current, vector, effectiveStep, direction, stepIdx) ==
  IF /\ tr.organic.lineFatigue > 0
     /\ tr.organic.fatigueNoise # <<>>
     /\ stepIdx > MinStepsBeforeFatigue
     /\ Fatigued(tr,
          noise2D(tr.organic.fatigueNoise, Mul(current.x, 8 * KILO),
                  Mul(current.y, 8 * KILO)),
          noise2D(tr.organic.fatigueNoise,
                  Mul(current.x, 100 * KILO) + stepIdx * HALF,
                  Mul(current.y, 100 * KILO) + Fix(direction * 100)))
    THEN Stop(current)
    ELSE StepEdge(tr, current, vector, effectiveStep, direction, stepIdx)

StepFadeCut(tr, current, vector, effectiveStep, direction, stepIdx) ==
  IF effectiveStep < HALF THEN Stop(current)
  ELSE StepFatigue(tr, current, vector, effectiveStep, direction, stepIdx)
StepFade(tr, current, vector, velocity, direction, stepIdx) ==
  IF tr.organic.velocityFadeout /\ velocity < 300 * KILO
    THEN StepFadeCut(tr, current, vector,
                     Mul(tr.stepLength,
                         Max(100 * KILO, Div(velocity, 300 * KILO))),
                     direction, stepIdx)
    ELSE StepFatigue(tr, current, vector, tr.stepLength, direction, stepIdx)
StepVelocity(tr, current, vector, direction, stepIdx) ==
  StepFade(tr, current, vector, Sqrt(Sq(vector.x) + Sq(vector.y)),
           direction, stepIdx)
computeStep(tr, current, direction, stepIdx) ==
  StepVelocity(tr, current,
               getVector(tr.field, current.x, current.y, tr.attractors),
               direction, stepIdx)

\* one of the two tracing loops of traceStreamlineVariable
RECURSIVE StreamLoop(_, _, _, _, _)
StreamNext(tr, points, step, direction, i) ==
  IF step.shouldStop THEN points
  ELSE StreamLoop(tr, Append(points, step.next), step.next, direction, i + 1)
StreamLoop(tr, points, current, direction, i) ==
  IF i >= tr.maxSteps THEN points
  ELSE StreamNext(tr, points, computeStep(tr, current, direction, i),
                  direction, i)

StreamArgs(field, spatialGrid, config, skipCollisionCheck) ==
  [field |-> field, spatialGrid |-> spatialGrid,
   skipCollisionCheck |-> skipCollisionCheck,
   stepLength |-> config.stepLength, maxSteps |-> config.maxSteps,
   margin |-> config.margin, baseSeparation |-> config.baseSeparation,
   attractors |-> config.attractors, density |-> config.density,
   organic |-> config.organic, canvasWidth |-> config.canvasWidth,
   canvasHeight |-> config.canvasHeight]

traceStreamlineVariable(field, start, spatialGrid, config, skipCollisionCheck) ==
  Reverse(StreamLoop(StreamArgs(field, spatialGrid, config,
                                skipCollisionCheck),
                     <<>>, start, 0 - 1, 0))
    \o StreamLoop(StreamArgs(field, spatialGrid, config, skipCollisionCheck),
                  <<start>>, start, 1, 0)

\* the configuration objects generateStreamlines builds from its parameters
DensityConfig(c) ==
  [points |-> c.densityPoints, variation |-> c.densityVariation,
   noiseScale |-> c.densityNoiseScale, minSeparation |-> c.minSeparation,
   noise |-> IF c.densityVariation > 0
               THEN SimplexNoise(c.seed + 12345) ELSE <<>>]
OrganicConfig(c) ==
  [wobble |-> c.organicWobble, velocityFadeout |-> c.velocityFadeout,
   edgeAttraction |-> c.edgeAttraction,
   wobbleNoise |-> IF c.organicWobble > 0
                     THEN SimplexNoise(c.seed + 54321) ELSE <<>>,
   lineFatigue |-> c.lineFatigue,
   fatigueNoise |-> IF c.lineFatigue > 0
                      THEN SimplexNoise(c.seed + 99999) ELSE <<>>]
TraceConfig(c) ==
  [stepLength |-> c.stepLength, maxSteps |-> c.maxSteps, margin |-> c.margin,
   baseSeparation |-> c.separationDistance, attractors |-> c.attractors,
   density |-> DensityConfig(c), organic |-> OrganicConfig(c),
   canvasWidth |-> c.width, canvasHeight |-> c.height]
\* traceConfig together with the other parameters the loop reads
StreamConfig(c, field) ==
  [stepLength |-> c.stepLength, maxSteps |-> c.maxSteps, margin |-> c.margin,
   baseSeparation |-> c.separationDistance, attractors |-> c.attractors,
   density |-> DensityConfig(c), organic |-> OrganicConfig(c),
   canvasWidth |-> c.width, canvasHeight |-> c.height,
   field |-> field, minLineLength |-> c.minLineLength,
   smoothing |-> c.smoothing, spacingVariation |-> c.spacingVariation,
   maxLines |-> c.lineCount]

\* seedQueue.sort((a, b) => b.priority - a.priority): a stable sort,
\* highest priority first
InsertAt(queue, entry, k) ==
  SubSeq(queue, 1, k) \o <<entry>> \o SubSeq(queue, k + 1, Len(queue))
InsertByPriority(queue, entry) ==
  InsertAt(queue, entry,
           Cardinality({i \in 1 .. Len(queue) :
                          queue[i].priority >= entry.priority}))
RECURSIVE SortLoop(_, _, _)
SortLoop(queue, k, sorted) ==
  IF k > Len(queue) THEN sorted
  ELSE SortLoop(queue, k + 1, InsertByPriority(sorted, queue[k]))
SortByPriority(queue) == SortLoop(queue, 1, <<>>)

\* the initial seeds: st is the queue so far and the generator state
InitialSeeds(maxLines) == Max(20, CeilDiv(maxLines, 20))
RECURSIVE InitialLoop(_, _, _, _, _)
InitialEntry(c, tc, x, y, sep) ==
  [point |-> Pt(x, y), priority |-> Div(tc.baseSeparation, sep)]
InitialAt(c, tc, x, y) ==
  InitialEntry(c, tc, x, y,
               calculateSeparationWithConfig(x, y, tc.baseSeparation,
                                             tc.density))
InitialDraw(c, tc, st, i, n, s1, s2) ==
  InitialLoop(c, tc,
              [seedQueue |-> Append(st.seedQueue,
                              InitialAt(c, tc,
                                c.margin + Mul(Random(s1),
                                               c.width - 2 * c.margin),
                                c.margin + Mul(Random(s2),
                                               c.height - 2 * c.margin))),
               s |-> s2],
              i + 1, n)
InitialNext(c, tc, st, i, n, s1) ==
  InitialDraw(c, tc, st, i, n, s1, LcgNext(s1))
InitialLoop(c, tc, st, i, n) ==
  IF i >= n THEN st ELSE InitialNext(c, tc, st, i, n, LcgNext(st.s))

DensitySeeds(densityPoints) ==
  [k \in 1 .. Len(densityPoints) |->
     [point |-> Pt(densityPoints[k].x, densityPoints[k].y),
      priority |-> Fix(10)]]

\* the locals of generateStreamlines when its while loop is first reached
StreamQueue(c, st) ==
  [seedQueue |-> SortByPriority(st.seedQueue \o DensitySeeds(c.densityPoints)),
   s |-> st.s, traced |-> <<>>, emit |-> FALSE,
   skipCollisionCheck |-> FALSE, effectiveSep |-> 0, priority |-> 0,
   seedPoint |-> Pt(0, 0), finalLine |-> <<>>]
StreamInit(c) ==
  StreamQueue(c, InitialLoop(c, TraceConfig(c),
                             [seedQueue |-> <<>>, s |-> c.seed], 0,
                             InitialSeeds(c.lineCount)))

\* the points generateStreamlines adds to the spatial grid for a line
GridSample(points, gridSampleRate) ==
  [k \in 1 .. CeilDiv(Len(points), gridSampleRate) |->
     points[(k - 1) * gridSampleRate + 1]]
    \o (IF Len(points) > 1 THEN <<points[Len(points)]>> ELSE <<>>)
GridSampleRate(effectiveSep) == Max(1, Floor(effectiveSep \div 2))

\* the seed candidates of one sampled point p0 of the line; sd is the queue
\* and the generator state
SeedPush(c, sd, s3, seed1, seed2, priority) ==
  [seedQueue |->
     sd.seedQueue
       \o (IF isInBounds(c.field, seed1.x, seed1.y, c.margin)
             THEN <<[point |-> seed1, priority |-> priority]>> ELSE <<>>)
       \o (IF isInBounds(c.field, seed2.x, seed2.y, c.margin)
             THEN <<[point |-> seed2, priority |-> priority]>> ELSE <<>>),
   s |-> s3]
SeedPair(c, sd, s3, p0, nx, ny, offset, priority) ==
  SeedPush(c, sd, s3,
           Pt(p0.x + Mul(nx, offset), p0.y + Mul(ny, offset)),
           Pt(p0.x - Mul(nx, offset), p0.y - Mul(ny, offset)), priority)
SeedPlace(c, sd, s3, p0, nx, ny, offsetMin, offsetRange, localSep) ==
  SeedPair(c, sd, s3, p0, nx, ny,
           Mul(localSep, offsetMin + Mul(Random(s3), offsetRange)),
           Div(c.baseSeparation, localSep))
SeedOffset(c, sd, s3, p0, nx, ny, offsetMin, offsetRange) ==
  SeedPlace(c, sd, s3, p0, nx, ny, offsetMin, offsetRange,
            calculateSeparationWithConfig(p0.x, p0.y, c.baseSeparation,
                                          c.density))
SeedRotated(c, sd, s2, p0, nx, ny, angleJitter) ==
  SeedOffset(c, sd, LcgNext(s2), p0,
             Mul(nx, Cos(angleJitter)) - Mul(ny, Sin(angleJitter)),
             Mul(nx, Sin(angleJitter)) + Mul(ny, Cos(angleJitter)),
             300 * KILO, 1200 * KILO)
SeedSpin(c, sd, s2, p0, nx, ny) ==
  SeedRotated(c, sd, s2, p0, nx, ny,
              Mul(Mul(Random(s2) - HALF, HALF), c.spacingVariation))
SeedJitter(c, sd, s1, p0, nx, ny) ==
  IF c.spacingVariation > 0
    THEN SeedSpin(c, sd, LcgNext(s1), p0, nx, ny)
    ELSE SeedOffset(c, sd, LcgNext(s1), p0, nx, ny, HALF, HALF)
SeedUnit(c, sd, s1, p0, dx, dy, len) ==
  IF len < KILO THEN [seedQueue |-> sd.seedQueue, s |-> s1]
  ELSE SeedJitter(c, sd, s1, p0, Div(0 - dy, len), Div(dx, len))
SeedAlong(c, sd, s1, p0, p1) ==
  SeedUnit(c, sd, s1, p0, p1.x - p0.x, p1.y - p0.y,
           Sqrt(Sq(p1.x - p0.x) + Sq(p1.y - p0.y)))
SeedSkip(c, sd, s1, p0, p1) ==
  IF Random(s1) < Mul(200 * KILO, c.spacingVariation)
    THEN [seedQueue |-> sd.seedQueue, s |-> s1]
    ELSE SeedAlong(c, sd, s1, p0, p1)
SeedAt(c, sd, points, i) ==
  IF c.spacingVariation > 0
    THEN SeedSkip(c, sd, LcgNext(sd.s), points[i + 1],
                  points[Min(i + 1, Len(points) - 1) + 1])
    ELSE SeedAlong(c, sd, sd.s, points[i + 1],
                   points[Min(i + 1, Len(points) - 1) + 1])

\* the loop over the sampled points, rounds lo .. hi of it (round k looks
\* at index k * sampleInterval); the range is halved to keep the
\* evaluation shallow
RECURSIVE SeedRange(_, _, _, _, _, _)
SeedUpper(c, sd, points, sampleInterval, lo, hi) ==
  IF sd.s >= 0 THEN SeedRange(c, sd, points, sampleInterval, lo, hi) ELSE sd
SeedRange(c, sd, points, sampleInterval, lo, hi) ==
  IF lo > hi THEN sd
  ELSE IF lo = hi THEN SeedAt(c, sd, points, lo * sampleInterval)
  ELSE SeedUpper(c,
                 SeedRange(c, sd, points, sampleInterval, lo,
                           (lo + hi) \div 2),
                 points, sampleInterval, (lo + hi) \div 2 + 1, hi)
SampleInterval(len, denseSampling) ==
  IF denseSampling THEN Max(1, len \div 50) ELSE Max(1, len \div 20)
SeedCandidates(c, sd, points, sampleInterval) ==
  SeedRange(c, sd, points, sampleInterval, 0,
            CeilDiv(Len(points) - 1, sampleInterval) - 1)

\* the partial shuffle of the queue, rounds lo .. hi
RECURSIVE MixRange(_, _, _)
MixSwap(sd, i, s1) ==
  [seedQueue |-> Swap(sd.seedQueue, i + 1,
                      Floor(Random(s1) * Len(sd.seedQueue)) + 1),
   s |-> s1]
MixUpper(sd, lo, hi) == IF sd.s >= 0 THEN MixRange(sd, lo, hi) ELSE sd
MixRange(sd, lo, hi) ==
  IF lo > hi THEN sd
  ELSE IF lo = hi THEN MixSwap(sd, lo, LcgNext(sd.s))
  ELSE MixUpper(MixRange(sd, lo, (lo + hi) \div 2),
                (lo + hi) \div 2 + 1, hi)
Resort(sd, lineCount) ==
  IF lineCount % 15 = 0 /\ Len(sd.seedQueue) > 20
    THEN MixRange(sd, 0, Min(20, Len(sd.seedQueue)) - 1) ELSE sd

\* one iteration of the while loop of generateStreamlines: st holds the
\* locals, ls the lines and g the spatial grid before it
\* a skipped iteration that leaves its seed at the head of the queue
SkippedKept(st, seedPoint, priority, effectiveSep, skip, s1) ==
  [st EXCEPT !.s = s1, !.emit = FALSE, !.skipCollisionCheck = skip,
             !.effectiveSep = effectiveSep, !.priority = priority,
             !.seedPoint = seedPoint, !.finalLine = <<>>]
Skipped(st, seedPoint, priority, effectiveSep, skip, s1) ==
  [st EXCEPT !.seedQueue = Tail(@), !.s = s1, !.emit = FALSE,
             !.skipCollisionCheck = skip, !.effectiveSep = effectiveSep,
             !.priority = priority, !.seedPoint = seedPoint,
             !.finalLine = <<>>]
Emitted(st, seedPoint, priority, effectiveSep, skip, finalLine, sd) ==
  [seedQueue |-> sd.seedQueue, s |-> sd.s,
   traced |-> Append(st.traced, ~skip), emit |-> TRUE,
   skipCollisionCheck |-> skip, effectiveSep |-> effectiveSep,
   priority |-> priority, seedPoint |-> seedPoint, finalLine |-> finalLine]
StreamSeeds(c, st, ls, seedPoint, priority, effectiveSep, densityRatio, skip, s1, finalLine) ==
  Emitted(st, seedPoint, priority, effectiveSep, skip, finalLine,
          Resort(SeedCandidates(c, [seedQueue |-> Tail(st.seedQueue),
                                    s |-> s1],
                                finalLine,
                                SampleInterval(Len(finalLine),
                                               densityRatio < HALF)),
                 Len(ls) + 1))
StreamLine(c, st, ls, seedPoint, priority, effectiveSep, densityRatio, skip, s1, line) ==
  IF Len(line) < c.minLineLength
    THEN Skipped(st, seedPoint, priority, effectiveSep, skip, s1)
    ELSE StreamSeeds(c, st, ls, seedPoint, priority, effectiveSep,
                     densityRatio, skip, s1,
                     IF c.smoothing > 0 /\ Len(line) > 2
                       THEN smoothLine(line, c.smoothing) ELSE line)
StreamTrace(c, st, ls, g, seedPoint, priority, effectiveSep, densityRatio, skip, s1) ==
  IF ~skip /\ hasNearby(g, seedPoint.x, seedPoint.y, Mul(effectiveSep, HALF))
    THEN Skipped(st, seedPoint, priority, effectiveSep, skip, s1)
    ELSE StreamLine(c, st, ls, seedPoint, priority, effectiveSep,
                    densityRatio, skip, s1,
                    traceStreamlineVariable(c.field, seedPoint, g, c, skip))
StreamFlip(c, st, ls, g, seedPoint, priority, effectiveSep, densityRatio, s1) ==
  StreamTrace(c, st, ls, g, seedPoint, priority, effectiveSep, densityRatio,
              Random(s1) > HALF, s1)
StreamSkip(c, st, ls, g, seedPoint, priority, effectiveSep, densityRatio) ==
  IF densityRatio < HALF
    THEN StreamTrace(c, st, ls, g, seedPoint, priority, effectiveSep,
                     densityRatio, TRUE, st.s)
  ELSE IF densityRatio < 800 * KILO
    THEN StreamFlip(c, st, ls, g, seedPoint, priority, effectiveSep,
                    densityRatio, LcgNext(st.s))
  ELSE StreamTrace(c, st, ls, g, seedPoint, priority, effectiveSep,
                   densityRatio, FALSE, st.s)
StreamSep(c, st, ls, g, seedPoint, priority, effectiveSep) ==
  StreamSkip(c, st, ls, g, seedPoint, priority, effectiveSep,
             Div(effectiveSep, c.baseSeparation))
StreamIteration(c, st, ls, g) ==
  StreamSep(c, st, ls, g, st.seedQueue[1].point, st.seedQueue[1].priority,
            calculateSeparationWithConfig(st.seedQueue[1].point.x,
                                          st.seedQueue[1].point.y,
                                          c.baseSeparation, c.density))

\* the while condition of generateStreamlines
StreamActive(st, ls, maxLines) == Len(st.seedQueue) > 0 /\ Len(ls) < maxLines

(***************************************************************************)
(* Swarm mode: generateSwarmLines and its helpers (flow-lines.ts).  The    *)
(* closure random is the generator state it holds; an operator that draws  *)
(* returns the state it leaves.                                            *)
(***************************************************************************)
\* Math.pow(a, e) for a >= 0 and an exponent e that is a multiple of 1/2
RECURSIVE PowInt(_, _)
PowInt(a, k) == IF k <= 0 THEN ONE ELSE Mul(a, PowInt(a, k - 1))
Pow(a, e) ==
  IF e % ONE = 0 THEN PowInt(a, e \div ONE) ELSE PowInt(Sqrt(a), e \div HALF)

MaxAttempts == 50
MaxTrail == 5000
CurlEps == 5 * ONE

\* the SwarmConfig generateSwarmLines builds, with the field, the
\* attractors and maxIterations it keeps beside it
SwarmConfig(c, field) ==
  [initialAgentCount |-> c.swarmAgentCount,
   maxAgents |-> c.swarmAgentCount * 10,
   maxLinesOutput |-> c.lineCount,
   spawnClusterBias |-> c.swarmClusterBias,
   childSpawnRate |-> c.swarmChildSpawnRate,
   childSpawnDistance |-> c.stepLength * 5,
   baseStepLength |-> c.stepLength,
   flowFieldInfluence |-> c.swarmFlowInfluence,
   noiseWanderScale |-> 10 * KILO,
   baseEnergy |-> Mul(Fix(c.maxSteps), HALF),
   energyVariation |-> c.swarmEnergyVariation,
   lowEnergySlowdown |-> TRUE,
   clusterRadius |-> Mul(Min(c.width, c.height), 100 * KILO),
   clusterAttraction |-> c.swarmClusterAttraction,
   densityNoise |-> SimplexNoise(c.seed + 11111),
   densityNoiseScale |-> 3 * KILO,
   spawnDensityBias |-> c.swarmClusterBias,
   voidThreshold |-> 0 - 200 * KILO - Mul(c.swarmVoidSize, 600 * KILO),
   voidRepulsion |-> c.swarmVoidSize,
   formNoise |-> SimplexNoise(c.seed + 22222),
   formNoiseScale |-> 5 * KILO,
   formInfluence |-> c.swarmFormInfluence,
   wanderNoise |-> SimplexNoise(c.seed + 33333),
   width |-> c.width, height |-> c.height, margin |-> c.margin,
   minLineLength |-> c.minLineLength,
   field |-> field, attractors |-> c.attractors,
   maxIterations |-> c.maxSteps * 100]

getDensityValue(x, y, config) ==
  fbm(config.densityNoise, Mul(x, config.densityNoiseScale),
      Mul(y, config.densityNoiseScale), 4, HALF, 2 * ONE)

\* trySpawnAgent.  generateSwarmLines is its only caller and passes no
\* parent; r is the outcome so far: the agent found, or none, and the
\* generator state
NoSpawn(s) == [found |-> FALSE, s |-> s, agent |-> <<>>]
SpawnTraits(id, x, y, maxEnergy, s5, s6, s7) ==
  [found |-> TRUE, s |-> s7,
   agent |-> [id |-> id, position |-> Pt(x, y), velocity |-> Pt(0, 0),
              energy |-> maxEnergy, maxEnergy |-> maxEnergy,
              energyDecayRate |-> ONE, trail |-> <<Pt(x, y)>>,
              wanderStrength |-> 200 * KILO + Mul(Random(s5), 600 * KILO),
              speedMultiplier |-> 700 * KILO + Mul(Random(s6), 600 * KILO),
              clusterAffinity |-> 300 * KILO + Mul(Random(s7), 400 * KILO),
              isAlive |-> TRUE, stepsAlive |-> 0]]
SpawnSpeed(id, x, y, maxEnergy, s5, s6) ==
  SpawnTraits(id, x, y, maxEnergy, s5, s6, LcgNext(s6))
SpawnBorn(id, x, y, maxEnergy, s5) ==
  SpawnSpeed(id, x, y, maxEnergy, s5, LcgNext(s5))
SpawnEnergy(config, id, x, y, densityVal, s4) ==
  SpawnBorn(id, x, y,
            Mul(Mul(config.baseEnergy,
                    ONE - Mul(config.energyVariation, HALF)
                      + Mul(Random(s4), config.energyVariation)),
                HALF + Mul(densityVal + ONE, HALF)),
            LcgNext(s4))
SpawnChance(config, id, x, y, densityVal, s3) ==
  IF Random(s3) > Pow(Mul(densityVal + ONE, HALF),
                      2 * ONE - Mul(config.spawnClusterBias, 1500 * KILO))
    THEN NoSpawn(s3)
    ELSE SpawnEnergy(config, id, x, y, densityVal, LcgNext(s3))
SpawnDensity(config, id, x, y, densityVal, s2) ==
  IF densityVal < config.voidThreshold THEN NoSpawn(s2)
  ELSE SpawnChance(config, id, x, y, densityVal, LcgNext(s2))
SpawnAt(config, id, field, x, y, s2) ==
  IF ~isInBounds(field, x, y, config.margin) THEN NoSpawn(s2)
  ELSE SpawnDensity(config, id, x, y, getDensityValue(x, y, config), s2)
SpawnDraw(config, id, field, s1, s2) ==
  SpawnAt(config, id, field,
          config.margin + Mul(Random(s1), config.width - 2 * config.margin),
          config.margin + Mul(Random(s2), config.height - 2 * config.margin),
          s2)
SpawnTry(config, id, field, s1) == SpawnDraw(config, id, field, s1, LcgNext(s1))

\* the attempts lo .. hi, as long as none has made an agent
RECURSIVE SpawnRange(_, _, _, _, _, _)
SpawnUpper(config, id, field, r, lo, hi) ==
  IF r.s >= 0 THEN SpawnRange(config, id, field, r, lo, hi) ELSE r
SpawnRange(config, id, field, r, lo, hi) ==
  IF r.found \/ lo > hi THEN r
  ELSE IF lo = hi THEN SpawnTry(config, id, field, LcgNext(r.s))
  ELSE SpawnUpper(config, id, field,
                  SpawnRange(config, id, field, r, lo, (lo + hi) \div 2),
                  (lo + hi) \div 2 + 1, hi)
trySpawnAgent(config, random, id, field) ==
  SpawnRange(config, id, field, NoSpawn(random), 1, MaxAttempts)

\* updateSwarmAgent, step 2: the wandering rotation
Rotate(v, cos, sin) ==
  Pt(Mul(v.x, cos) - Mul(v.y, sin), Mul(v.x, sin) + Mul(v.y, cos))
RotateBy(v, angle) == Rotate(v, Cos(angle), Sin(angle))
Wander(agent, config, dir) ==
  RotateBy(dir,
           Mul(Mul(noise2D(config.wanderNoise,
                           Mul(agent.position.x, config.noiseWanderScale)
                             + Fix(agent.id * 100),
                           Mul(agent.position.y, config.noiseWanderScale)),
                   Pi),
               agent.wanderStrength))

\* step 3: the pull toward the living agents within clusterRadius
ClusterAdd(acc, dx, dy, dist, clusterRadius) ==
  IF dist < clusterRadius /\ dist > KILO
    THEN [x |-> acc.x + Mul(Div(dx, dist), ONE - Div(dist, clusterRadius)),
          y |-> acc.y + Mul(Div(dy, dist), ONE - Div(dist, clusterRadius)),
          count |-> acc.count + 1]
    ELSE acc
ClusterOther(acc, dx, dy, clusterRadius) ==
  ClusterAdd(acc, dx, dy, Sqrt(Sq(dx) + Sq(dy)), clusterRadius)
RECURSIVE ClusterLoop(_, _, _, _, _)
ClusterLoop(agent, config, allAgents, k, acc) ==
  IF k > Len(allAgents) THEN acc
  ELSE ClusterLoop(agent, config, allAgents, k + 1,
         IF ~allAgents[k].isAlive \/ allAgents[k].id = agent.id THEN acc
         ELSE ClusterOther(acc,
                           allAgents[k].position.x - agent.position.x,
                           allAgents[k].position.y - agent.position.y,
                           config.clusterRadius))
ClusterBlend(dir, acc, strength) ==
  IF acc.count > 0
    THEN Pt(Mul(dir.x, ONE - strength)
              + Mul(Div(acc.x, Fix(acc.count)), strength),
            Mul(dir.y, ONE - strength)
              + Mul(Div(acc.y, Fix(acc.count)), strength))
    ELSE dir
ClusterPull(agent, config, allAgents, dir) ==
  IF config.clusterAttraction > 0 /\ agent.clusterAffinity > 0
    THEN ClusterBlend(dir,
                      ClusterLoop(agent, config, allAgents, 1,
                                  [x |-> 0, y |-> 0, count |-> 0]),
                      Mul(config.clusterAttraction, agent.clusterAffinity))
    ELSE dir

\* step 4: the curl of the form noise
FormCurl(dir, formInfluence, gradX, gradY) ==
  Pt(Mul(dir.x, ONE - formInfluence) + Mul(0 - gradY, formInfluence),
     Mul(dir.y, ONE - formInfluence) + Mul(gradX, formInfluence))
FormGrad(dir, formInfluence, nx, nxr, nyu) ==
  FormCurl(dir, formInfluence, Div(nxr - nx, CurlEps), Div(nyu - nx, CurlEps))
FormWrap(agent, config, dir) ==
  IF config.formInfluence > 0
    THEN FormGrad(dir, config.formInfluence,
                  noise2D(config.formNoise,
                          Mul(agent.position.x, config.formNoiseScale),
                          Mul(agent.position.y, config.formNoiseScale)),
                  noise2D(config.formNoise,
                          Mul(agent.position.x + CurlEps, config.formNoiseScale),
                          Mul(agent.position.y, config.formNoiseScale)),
                  noise2D(config.formNoise,
                          Mul(agent.position.x, config.formNoiseScale),
                          Mul(agent.position.y + CurlEps, config.formNoiseScale)))
    ELSE dir

\* step 5: the push out of the void
VoidPush(dir, gradX, gradY, repulsion) ==
  Pt(dir.x + Mul(Mul(gradX, repulsion), 2 * ONE),
     dir.y + Mul(Mul(gradY, repulsion), 2 * ONE))
VoidGrad(config, dir, densityVal, dRight, dUp) ==
  VoidPush(dir, Div(dRight - densityVal, CurlEps), Div(dUp - densityVal, CurlEps),
           Mul(config.voidRepulsion,
               ONE - Div(densityVal - config.voidThreshold, 200 * KILO)))
VoidAt(agent, config, dir, densityVal) ==
  IF densityVal < config.voidThreshold + 200 * KILO
    THEN VoidGrad(config, dir, densityVal,
                  getDensityValue(agent.position.x + CurlEps, agent.position.y,
                                  config),
                  getDensityValue(agent.position.x, agent.position.y + CurlEps,
                                  config))
    ELSE dir
VoidRepel(agent, config, dir) ==
  IF config.voidRepulsion > 0
    THEN VoidAt(agent, config, dir,
                getDensityValue(agent.position.x, agent.position.y, config))
    ELSE dir

\* the normalisation, the speed and the move
SwarmUnit(dir, len) ==
  IF len > KILO THEN Pt(Div(dir.x, len), Div(dir.y, len)) ELSE dir
SwarmDirection(dir) == SwarmUnit(dir, Sqrt(Sq(dir.x) + Sq(dir.y)))
SwarmSpeed(agent, config) ==
  IF config.lowEnergySlowdown
    THEN Mul(Mul(config.baseStepLength, agent.speedMultiplier),
             300 * KILO + Mul(Div(agent.energy, agent.maxEnergy), 700 * KILO))
    ELSE Mul(config.baseStepLength, agent.speedMultiplier)
SwarmPlace(agent, dir, position) ==
  [agent EXCEPT !.velocity = dir, !.position = position,
                !.trail = Append(@, position),
                !.energy = @ - agent.energyDecayRate,
                !.stepsAlive = @ + 1]
SwarmMove(agent, dir, speed) ==
  SwarmPlace(agent, dir,
             Pt(agent.position.x + Mul(dir.x, speed),
                agent.position.y + Mul(dir.y, speed)))

\* updateSwarmAgent: the agent as the call leaves it (it draws nothing)
updateSwarmAgent(agent, field, config, allAgents, attractors) ==
  SwarmMove(agent,
            SwarmDirection(
              VoidRepel(agent, config,
                FormWrap(agent, config,
                  ClusterPull(agent, config, allAgents,
                    Wander(agent, config,
                           getVector(field, agent.position.x,
                                     agent.position.y, attractors)))))),
            SwarmSpeed(agent, config))

shouldAgentTerminate(agent, config, field) ==
  \/ agent.energy <= 0
  \/ ~isInBounds(field, agent.position.x, agent.position.y, config.margin)
  \/ getDensityValue(agent.position.x, agent.position.y, config)
       < config.voidThreshold - 100 * KILO
  \/ Len(agent.trail) > MaxTrail

\* spawnChildAgent: the child, or none, the parent's energy afterwards and
\* the generator state
NoChild(parent, s) ==
  [found |-> FALSE, s |-> s, agent |-> <<>>, parentEnergy |-> parent.energy]
ChildTraits(parent, id, x, y, childEnergy, s4, s5, s6) ==
  [found |-> TRUE, s |-> s6,
   parentEnergy |-> parent.energy - Mul(childEnergy, 300 * KILO),
   agent |-> [id |-> id, position |-> Pt(x, y), velocity |-> parent.velocity,
              energy |-> childEnergy, maxEnergy |-> childEnergy,
              energyDecayRate |-> parent.energyDecayRate,
              trail |-> <<Pt(x, y)>>,
              wanderStrength |->
                Mul(parent.wanderStrength,
                    800 * KILO + Mul(Random(s4), 400 * KILO)),
              speedMultiplier |->
                Mul(parent.speedMultiplier,
                    800 * KILO + Mul(Random(s5), 400 * KILO)),
              clusterAffinity |->
                Mul(parent.clusterAffinity,
                    800 * KILO + Mul(Random(s6), 400 * KILO)),
              isAlive |-> TRUE, stepsAlive |-> 0]]
ChildSpeed(parent, id, x, y, childEnergy, s4, s5) ==
  ChildTraits(parent, id, x, y, childEnergy, s4, s5, LcgNext(s5))
ChildBorn(parent, id, x, y, childEnergy, s4) ==
  ChildSpeed(parent, id, x, y, childEnergy, s4, LcgNext(s4))
\* a child that may take more than the parent has
ChildEnergyWide(parent, id, x, y, s3) ==
  ChildBorn(parent, id, x, y,
            Mul(parent.energy, 400 * KILO + Mul(Random(s3), 2 * ONE)),
            LcgNext(s3))
ChildEnergy(parent, id, x, y, s3) ==
  ChildBorn(parent, id, x, y,
            Mul(parent.energy, 400 * KILO + Mul(Random(s3), 300 * KILO)),
            LcgNext(s3))
ChildAt(parent, config, id, field, x, y, s2) ==
  IF ~isInBounds(field, x, y, config.margin) THEN NoChild(parent, s2)
  ELSE IF getDensityValue(x, y, config) < config.voidThreshold
    THEN NoChild(parent, s2)
  ELSE ChildEnergy(parent, id, x, y, LcgNext(s2))
ChildOffset(parent, config, id, field, side, dist, s2) ==
  ChildAt(parent, config, id, field,
          parent.position.x + Mul(0 - parent.velocity.y, dist) * side,
          parent.position.y + Mul(parent.velocity.x, dist) * side, s2)
ChildDraw(parent, config, id, field, s1, s2) ==
  ChildOffset(parent, config, id, field,
              IF Random(s1) > HALF THEN 1 ELSE 0 - 1,
              Mul(config.childSpawnDistance, HALF + Mul(Random(s2), HALF)),
              s2)
spawnChildAgent(parent, config, random, id, field) ==
  ChildDraw(parent, config, id, field, LcgNext(random),
            LcgNext(LcgNext(random)))

\* generateSwarmLines, the initial agents: st holds agents, nextId and the
\* generator state s
SwarmSeeded(st, r) ==
  [st EXCEPT !.agents = IF r.found THEN Append(@, r.agent) ELSE @,
             !.nextId = @ + 1, !.s = r.s]
RECURSIVE InitialAgents(_, _, _, _)
InitialAgents(config, field, st, i) ==
  IF i >= config.initialAgentCount THEN st
  ELSE InitialAgents(config, field,
                     SwarmSeeded(st, trySpawnAgent(config, st.s, st.nextId,
                                                   field)),
                     i + 1)
SwarmInit(config, seed) ==
  InitialAgents(config, config.field,
                [agents |-> <<>>, nextId |-> 0, s |-> seed, iteration |-> 0,
                 emitted |-> <<>>],
                0)

\* the body of the for loop over the agents, for agent i (from 1)
Retired(config, st, i, agent) ==
  [st EXCEPT !.agents[i] = [agent EXCEPT !.isAlive = FALSE],
             !.emitted = IF Len(agent.trail) >= config.minLineLength
                           THEN Append(@, agent.trail) ELSE @]
ChildJoined(st, i, agent, r) ==
  [st EXCEPT !.agents =
               IF r.found
                 THEN Append([@ EXCEPT ![i] =
                                [agent EXCEPT !.energy = r.parentEnergy]],
                             r.agent)
                 ELSE [@ EXCEPT ![i] = agent],
             !.nextId = @ + 1, !.s = r.s]
ChildRoll(config, field, st, i, agent, spawnChance, s1) ==
  IF Random(s1) < Mul(spawnChance, 100 * KILO)
    THEN ChildJoined(st, i, agent,
                     spawnChildAgent(agent, config, s1, st.nextId, field))
    ELSE [st EXCEPT !.agents[i] = agent, !.s = s1]
ChildChance(config, field, st, i, agent, localDensity) ==
  ChildRoll(config, field, st, i, agent,
            Mul(config.childSpawnRate, HALF + Mul(localDensity, HALF)),
            LcgNext(st.s))
\* the child spawn without the ceiling on the number of agents
ChildTryUncapped(config, field, st, i, agent) ==
  IF agent.energy > Mul(agent.maxEnergy, 300 * KILO)
    THEN ChildChance(config, field, st, i, agent,
                     getDensityValue(agent.position.x, agent.position.y,
                                     config))
    ELSE [st EXCEPT !.agents[i] = agent]
ChildTry(config, field, st, i, agent) ==
  IF Len(st.agents) < config.maxAgents
       /\ agent.energy > Mul(agent.maxEnergy, 300 * KILO)
    THEN ChildChance(config, field, st, i, agent,
                     getDensityValue(agent.position.x, agent.position.y,
                                     config))
    ELSE [st EXCEPT !.agents[i] = agent]
AgentMoved(config, field, st, i, agent) ==
  IF shouldAgentTerminate(agent, config, field)
    THEN Retired(config, st, i, agent)
    ELSE ChildTry(config, field, st, i, agent)
AgentTurn(config, field, st, i) ==
  IF ~st.agents[i].isAlive THEN st
  ELSE AgentMoved(config, field, st, i,
                  updateSwarmAgent(st.agents[i], field, config, st.agents,
                                   config.attractors))

\* the for loop: agents pushed during the loop take their turn in it
RECURSIVE AgentsFrom(_, _, _, _)
AgentsFrom(config, field, st, i) ==
  IF i > Len(st.agents) THEN st
  ELSE AgentsFrom(config, field, AgentTurn(config, field, st, i), i + 1)

\* one iteration of the while loop
SwarmIteration(config, st) ==
  [AgentsFrom(config, config.field, [st EXCEPT !.emitted = <<>>], 1)
     EXCEPT !.iteration = @ + 1]

\* a while condition without the line cap and the iteration ceiling
SwarmAliveOnly(st, completed, config) ==
  \E k \in 1 .. Len(st.agents) : st.agents[k].isAlive

\* the while condition; completed is completedLines
SwarmActive(st, completed, config) ==
  /\ \E k \in 1 .. Len(st.agents) : st.agents[k].isAlive
  /\ Len(completed) < config.maxLinesOutput
  /\ st.iteration < config.maxIterations

\* the closing loop: completedLines holds copies of the trails, so the
\* identity test l.points === agent.trail finds none of them
\* every remaining trail, whatever its length
RemainingAll(agents, k, minLineLength, completed) ==
  completed \o [j \in 1 .. Len(agents) |-> agents[j].trail]
RECURSIVE RemainingTrails(_, _, _, _)
RemainingTrails(agents, k, minLineLength, completed) ==
  IF k > Len(agents) THEN completed
  ELSE RemainingTrails(agents, k + 1, minLineLength,
                       IF Len(agents[k].trail) >= minLineLength
                         THEN Append(completed, agents[k].trail)
                         ELSE completed)

(***************************************************************************)
(* Form hatching: generateFormHatching (flow-lines.ts).  h holds the       *)
(* function's parameters and its five noise generators.                    *)
(***************************************************************************)
HatchEps == 2 * ONE

HatchConfig(c) ==
  [width |-> c.width, height |-> c.height, maxLines |-> c.lineCount,
   stepLength |-> c.stepLength, maxSteps |-> c.maxSteps, margin |-> c.margin,
   minLineLength |-> c.minLineLength, seed |-> c.seed,
   formScale |-> c.formScale, formContrast |-> c.formContrast,
   hatchDensity |-> c.hatchDensity,
   lengthVariation |-> c.hatchLengthVariation,
   angleVariation |-> c.hatchAngleVariation, overlap |-> c.hatchOverlap,
   wobble |-> c.organicWobble,
   formNoise |-> SimplexNoise(c.seed),
   densityNoise |-> SimplexNoise(c.seed + 1111),
   lengthNoise |-> SimplexNoise(c.seed + 2222),
   wobbleNoise |-> SimplexNoise(c.seed + 3333),
   angleNoise |-> SimplexNoise(c.seed + 4444)]

\* the density the seed loop and the trace loop read at (x, y)
HatchDensityAt(h, x, y) ==
  fbm(h.densityNoise, Mul(Mul(x, h.formScale), HALF),
      Mul(Mul(y, h.formScale), HALF), 4, HALF, 2 * ONE)

\* the seed loop, lines 1636-1659: sd holds seeds and the generator state
TotalSeeds(h) ==
  Floor(Mul(Fix(h.maxLines), 5 * ONE + Mul(h.hatchDensity, 10 * ONE)))
HatchSeedSpawn(sd, x, y, spawnProb, s3) ==
  [seeds |-> IF Random(s3) < spawnProb THEN Append(sd.seeds, Pt(x, y))
             ELSE sd.seeds,
   s |-> s3]
HatchSeedContrast(h, sd, x, y, contrastDensity, s3) ==
  HatchSeedSpawn(sd, x, y,
            Pow(Mul(contrastDensity + ONE, HALF),
                2 * ONE - Mul(h.formContrast, 1500 * KILO)),
            s3)
HatchSeedDensity(h, sd, x, y, density, s3) ==
  HatchSeedContrast(h, sd, x, y,
               Sign(density)
                 * Pow(Abs(density), Div(ONE, ONE + h.formContrast)),
               s3)
HatchSeedPoint(h, sd, x, y, s2) ==
  HatchSeedDensity(h, sd, x, y, HatchDensityAt(h, x, y), LcgNext(s2))
HatchSeedDraw(h, sd, s1, s2) ==
  HatchSeedPoint(h, sd, h.margin + Mul(Random(s1), h.width - 2 * h.margin),
            h.margin + Mul(Random(s2), h.height - 2 * h.margin), s2)
HatchSeedStep(h, sd, s1) == HatchSeedDraw(h, sd, s1, LcgNext(s1))

\* the iterations lo .. hi; the loop is over once maxLines * 3 seeds exist
RECURSIVE HatchSeedRange(_, _, _, _)
HatchSeedUpper(h, sd, lo, hi) ==
  IF sd.s >= 0 THEN HatchSeedRange(h, sd, lo, hi) ELSE sd
HatchSeedRange(h, sd, lo, hi) ==
  IF lo > hi \/ Len(sd.seeds) >= h.maxLines * 3 THEN sd
  ELSE IF lo = hi THEN HatchSeedStep(h, sd, LcgNext(sd.s))
  ELSE HatchSeedUpper(h, HatchSeedRange(h, sd, lo, (lo + hi) \div 2),
                      (lo + hi) \div 2 + 1, hi)
HatchSeeds(h) ==
  HatchSeedRange(h, [seeds |-> <<>>, s |-> h.seed], 1, TotalSeeds(h))

\* one step of the trace loop, lines 1675-1751: t holds x, y, the trail,
\* the generator state and whether the loop has ended
HatchBreak(t) == [t EXCEPT !.done = TRUE]
HatchThin(h, t, localDensity, s1) ==
  IF localDensity < 0 - 300 * KILO
    THEN IF Random(s1) < Mul(100 * KILO, ONE + h.formContrast)
           THEN [t EXCEPT !.s = s1, !.done = TRUE]
           ELSE [t EXCEPT !.s = s1]
    ELSE t
HatchPush(h, t, nextX, nextY) ==
  HatchThin(h, [t EXCEPT !.x = nextX, !.y = nextY,
                         !.trail = Append(@, Pt(nextX, nextY))],
            HatchDensityAt(h, nextX, nextY), LcgNext(t.s))
HatchBounds(h, t, nextX, nextY) ==
  IF nextX < h.margin \/ nextX > h.width - h.margin
       \/ nextY < h.margin \/ nextY > h.height - h.margin
    THEN HatchBreak(t)
    ELSE HatchPush(h, t, nextX, nextY)
HatchShift(h, t, dir, nextX, nextY, wobbleAmount) ==
  HatchBounds(h, t, nextX + Mul(0 - dir.y, wobbleAmount),
              nextY + Mul(dir.x, wobbleAmount))
HatchWobble(h, t, dir, step, nextX, nextY) ==
  IF h.wobble > 0
    THEN HatchShift(h, t, dir, nextX, nextY,
                    Mul(Mul(Mul(noise2D(h.wobbleNoise,
                                        Mul(t.x, 20 * KILO)
                                          + step * (100 * KILO),
                                        Mul(t.y, 20 * KILO)),
                                h.wobble),
                            h.stepLength),
                        2 * ONE))
    ELSE HatchBounds(h, t, nextX, nextY)
HatchNext(h, t, dir, step) ==
  HatchWobble(h, t, dir, step, t.x + Mul(dir.x, h.stepLength),
              t.y + Mul(dir.y, h.stepLength))
HatchAngle(h, t, dir, step) ==
  IF h.angleVariation > 0
    THEN HatchNext(h, t,
                   RotateBy(dir,
                            Mul(Mul(Mul(noise2D(h.angleNoise,
                                                Mul(Mul(t.x, h.formScale),
                                                    2 * ONE)
                                                  + step * (100 * KILO),
                                                Mul(Mul(t.y, h.formScale),
                                                    2 * ONE)),
                                        Pi),
                                    HALF),
                                h.angleVariation)),
                   step)
    ELSE HatchNext(h, t, dir, step)
HatchFlat(h, t, step, s1) ==
  HatchAngle(h, [t EXCEPT !.s = s1],
             Pt(Cos(Mul(Mul(Random(s1), Pi), 2 * ONE)),
                Sin(Mul(Mul(Random(s1), Pi), 2 * ONE))),
             step)
HatchContour(h, t, step, dirX, dirY, len) ==
  IF len > KILO
    THEN HatchAngle(h, t, Pt(Div(dirX, len), Div(dirY, len)), step)
    ELSE HatchFlat(h, t, step, LcgNext(t.s))
HatchGradient(h, t, step, gradX, gradY) ==
  HatchContour(h, t, step, 0 - gradY, gradX, Sqrt(Sq(gradX) + Sq(gradY)))
HatchForm(h, t, step, formHere, formRight, formUp) ==
  HatchGradient(h, t, step, Div(formRight - formHere, HatchEps),
                Div(formUp - formHere, HatchEps))
HatchStepAt(h, t, step) ==
  HatchForm(h, t, step,
            fbm(h.formNoise, Mul(t.x, h.formScale), Mul(t.y, h.formScale),
                3, HALF, 2 * ONE),
            fbm(h.formNoise, Mul(t.x + HatchEps, h.formScale),
                Mul(t.y, h.formScale), 3, HALF, 2 * ONE),
            fbm(h.formNoise, Mul(t.x, h.formScale),
                Mul(t.y + HatchEps, h.formScale), 3, HALF, 2 * ONE))

RECURSIVE HatchLoop(_, _, _, _)
HatchLoop(h, t, step, targetSteps) ==
  IF step >= targetSteps \/ t.done THEN t
  ELSE HatchLoop(h, HatchStepAt(h, t, step), step + 1, targetSteps)

\* the body of the loop over the seeds, lines 1665-1751
TargetSteps(h, baseLengthNoise, s1) ==
  Floor(Mul(Fix(h.maxSteps),
            300 * KILO
              + Mul(Mul(baseLengthNoise + ONE, HALF), ONE - h.lengthVariation)
              + Mul(Random(s1), h.lengthVariation)))
HatchDrawn(h, seedPoint, s1) ==
  HatchLoop(h, [x |-> seedPoint.x, y |-> seedPoint.y, trail |-> <<seedPoint>>,
                s |-> s1, done |-> FALSE],
            0,
            TargetSteps(h, noise2D(h.lengthNoise, Mul(seedPoint.x, h.formScale),
                                   Mul(seedPoint.y, h.formScale)),
                        s1))
HatchTrail(h, seedPoint, s) == HatchDrawn(h, seedPoint, LcgNext(s))

\* the loop over the seeds goes on while seeds are left and fewer than
\* maxLines lines are kept
HatchPc(seeds, idx, kept, maxLines) ==
  IF idx > Len(seeds) \/ Len(kept) >= maxLines THEN "return" ELSE "hatch"

(***************************************************************************)
(* The option space explored                                               *)
(***************************************************************************)
CanvasUnits == 16
MarginUnits == 4
ResolutionUnits == 4
MaxSteps == 4
MaxLines == 3
MaxCalls == 2

\* explicit seeds; 230538014 is the state the generator maps to 0
Seeds == {42, 230538014}
\* values Math.floor(Math.random() * 1000000) can take
RandomSeeds == {16531, 999999}

BaseOptions ==
  [width |-> Fix(CanvasUnits), height |-> Fix(CanvasUnits),
   lineCount |-> MaxLines, stepLength |-> 2 * ONE, maxSteps |-> MaxSteps,
   margin |-> Fix(MarginUnits), minLineLength |-> 2,
   fieldResolution |-> Fix(ResolutionUnits),
   seedGiven |-> TRUE, seed |-> 42,
   noiseScale |-> 50 * KILO, octaves |-> 2, persistence |-> HALF,
   lacunarity |-> 2 * ONE,
   startPointsGiven |-> FALSE, startPoints |-> <<>>, attractors |-> <<>>,
   smoothing |-> 0, separationDistance |-> 0, bidirectional |-> FALSE,
   evenDistribution |-> FALSE, fillMode |-> FALSE,
   densityPoints |-> <<>>, densityVariation |-> 0,
   densityNoiseScale |-> 3 * KILO, minSeparation |-> ONE,
   organicWobble |-> 0, velocityFadeout |-> FALSE, edgeAttraction |-> 0,
   lineFatigue |-> 0, spacingVariation |-> 0,
   swarmMode |-> FALSE, swarmAgentCount |-> 2, swarmClusterBias |-> 0,
   swarmChildSpawnRate |-> 300 * KILO, swarmFlowInfluence |-> 700 * KILO,
   swarmClusterAttraction |-> 600 * KILO, swarmFormInfluence |-> 600 * KILO,
   swarmVoidSize |-> HALF, swarmEnergyVariation |-> 600 * KILO,
   formHatchingMode |-> FALSE, formScale |-> 3 * KILO, formContrast |-> 0,
   hatchDensity |-> ONE, hatchLengthVariation |-> 600 * KILO,
   hatchAngleVariation |-> 300 * KILO, hatchOverlap |-> 800 * KILO]

SeedChoices == {[given |-> TRUE, seed |-> sd] : sd \in Seeds}
                 \cup {[given |-> FALSE, seed |-> 0]}

OneAttractor ==
  <<[x |-> Fix(8), y |-> Fix(8), radius |-> Fix(6), strength |-> 2 * ONE]>>

\* explicit start points (inside, on the margin, outside it), with the
\* attractors that go with them
StartLists ==
  { [points |-> <<Pt(Fix(6), Fix(6)), Pt(Fix(10), Fix(9)),
                  Pt(Fix(2), Fix(8))>>,
     attractors |-> <<>>],
    [points |-> <<Pt(Fix(MarginUnits), Fix(MarginUnits)), Pt(Fix(9), Fix(7))>>,
     attractors |-> OneAttractor] }

\* basic mode, scattered start points
ScatterOptions ==
  {[BaseOptions EXCEPT !.seedGiven = sc.given, !.seed = sc.seed,
                       !.minLineLength = ml, !.smoothing = sm,
                       !.separationDistance = sep, !.bidirectional = bi] :
     sc \in SeedChoices, ml \in {1, 3}, sm \in {0, HALF},
     sep \in {0, 3 * ONE}, bi \in BOOLEAN}
    \cup { [BaseOptions EXCEPT !.smoothing = 300 * KILO,
                               !.minLineLength = MaxSteps + 2] }

\* basic mode, Poisson-disk start points
PoissonOptions ==
  {[BaseOptions EXCEPT !.seedGiven = sc.given, !.seed = sc.seed,
                       !.evenDistribution = TRUE, !.minLineLength = ml,
                       !.separationDistance = sep] :
     sc \in SeedChoices, ml \in {1, 3}, sep \in {0, 3 * ONE}}

\* basic mode, explicit start points
ExplicitOptions ==
  {[BaseOptions EXCEPT !.seedGiven = sc.given, !.seed = sc.seed,
                       !.startPointsGiven = TRUE, !.startPoints = sp.points,
                       !.attractors = sp.attractors,
                       !.minLineLength = ml, !.smoothing = sm,
                       !.separationDistance = sep, !.bidirectional = bi] :
     sc \in {[given |-> TRUE, seed |-> 42], [given |-> FALSE, seed |-> 0]},
     sp \in StartLists, ml \in {1, 3}, sm \in {0, 300 * KILO},
     sep \in {0, 3 * ONE}, bi \in BOOLEAN}
    \cup { [BaseOptions EXCEPT !.startPointsGiven = TRUE,
                               !.startPoints = <<Pt(Fix(6), Fix(10)),
                                                 Pt(Fix(6), Fix(8))>>,
                               !.separationDistance = 2 * ONE,
                               !.smoothing = 300 * KILO,
                               !.minLineLength = 1] }

\* a canvas whose interior is two units of the last place wide
NarrowOptions ==
  {[BaseOptions EXCEPT !.seedGiven = sc.given, !.seed = sc.seed,
                       !.width = 2 * Fix(MarginUnits) + 2,
                       !.minLineLength = 1] : sc \in SeedChoices}

\* fill mode; with separationDistance 0 the call traces in basic mode
FillOptions ==
  {[BaseOptions EXCEPT !.seedGiven = sc.given, !.seed = sc.seed,
                       !.fillMode = TRUE, !.separationDistance = sep,
                       !.smoothing = sm, !.minLineLength = ml] :
     sc \in SeedChoices, sep \in {0, 2 * ONE, 4 * ONE}, sm \in {0, HALF},
     ml \in {2, 3}}

\* fill mode with the density and the organic options
FillBase ==
  [BaseOptions EXCEPT !.fillMode = TRUE, !.separationDistance = 4 * ONE]
OrganicOptions ==
  { [FillBase EXCEPT !.densityPoints =
       <<[x |-> Fix(8), y |-> Fix(8), radius |-> Fix(4), strength |-> ONE]>>],
    [FillBase EXCEPT !.densityPoints =
       <<[x |-> Fix(2), y |-> Fix(8), radius |-> Fix(3),
          strength |-> HALF]>>, !.minLineLength = 1],
    [FillBase EXCEPT !.densityVariation = ONE,
                     !.densityNoiseScale = 100 * KILO],
    [FillBase EXCEPT !.organicWobble = HALF, !.edgeAttraction = HALF],
    [FillBase EXCEPT !.velocityFadeout = TRUE, !.lineFatigue = ONE,
                     !.stepLength = HALF, !.maxSteps = 3 * MaxSteps],
    [FillBase EXCEPT !.spacingVariation = ONE] }

\* swarm mode
SwarmSeedChoices ==
  {[given |-> TRUE, seed |-> 42], [given |-> FALSE, seed |-> 0]}
SwarmBase ==
  [BaseOptions EXCEPT !.swarmMode = TRUE, !.stepLength = ONE,
                      !.swarmChildSpawnRate = 10 * ONE]
SwarmOptions ==
  {[SwarmBase EXCEPT !.seedGiven = sc.given, !.seed = sc.seed,
                     !.minLineLength = ml, !.swarmAgentCount = n,
                     !.swarmChildSpawnRate = rate] :
     sc \in SwarmSeedChoices, ml \in {2, 3}, n \in {1, 2},
     rate \in {300 * KILO, 10 * ONE}}
    \cup { [SwarmBase EXCEPT !.swarmClusterBias = ONE],
           [SwarmBase EXCEPT !.lineCount = 1],
           [SwarmBase EXCEPT !.maxSteps = 7 * MaxSteps, !.stepLength = HALF,
                             !.minLineLength = 3, !.swarmAgentCount = 1],
           [SwarmBase EXCEPT !.fillMode = TRUE,
                             !.separationDistance = 2 * ONE] }

\* form hatching
HatchBase ==
  [BaseOptions EXCEPT !.formHatchingMode = TRUE, !.formScale = 50 * KILO,
                      !.hatchDensity = 0]
HatchOptions ==
  {[HatchBase EXCEPT !.seedGiven = sc.given, !.seed = sc.seed,
                     !.minLineLength = ml, !.formContrast = fc] :
     sc \in SwarmSeedChoices, ml \in {2, 3}, fc \in {0, ONE}}
    \cup { [HatchBase EXCEPT !.hatchDensity = ONE],
           [HatchBase EXCEPT !.hatchAngleVariation = 0, !.minLineLength = 3],
           [HatchBase EXCEPT !.organicWobble = HALF],
           [HatchBase EXCEPT !.margin = Fix(CanvasUnits) \div 2,
                             !.minLineLength = 1],
           [HatchBase EXCEPT !.swarmMode = TRUE, !.fillMode = TRUE,
                             !.separationDistance = 2 * ONE] }

\* the options of basic tracing given together with another mode
BasicExtras(o) ==
  [o EXCEPT !.startPointsGiven = TRUE,
            !.startPoints = <<Pt(Fix(6), Fix(10))>>,
            !.evenDistribution = TRUE, !.bidirectional = TRUE]
MixedOptions ==
  { BasicExtras([HatchBase EXCEPT !.swarmMode = TRUE, !.fillMode = TRUE,
                                  !.separationDistance = 2 * ONE]),
    BasicExtras([SwarmBase EXCEPT !.fillMode = TRUE,
                                  !.separationDistance = 2 * ONE]),
    BasicExtras(FillBase),
    BasicExtras([BaseOptions EXCEPT !.fillMode = TRUE]) }

OptionSpace ==
  ScatterOptions \cup PoissonOptions \cup ExplicitOptions \cup NarrowOptions
    \cup FillOptions \cup OrganicOptions \cup SwarmOptions \cup HatchOptions
    \cup MixedOptions

(***************************************************************************)
(* generateFlowLines as a state machine                                    *)
(***************************************************************************)
vars == <<opts, cfg, pc, flowField, rngState, lines, spatialIndex, loc, results>>

Init ==
  /\ opts \in OptionSpace
  /\ cfg = opts
  /\ pc = "idle"
  /\ flowField = FlowField([width |-> ONE, height |-> ONE, resolution |-> ONE,
                        seed |-> 0, noiseScale |-> 0, octaves |-> 1,
                        persistence |-> HALF, lacunarity |-> 2 * ONE])
  /\ rngState = 0
  /\ lines = <<>>
  /\ spatialIndex = NullGrid
  /\ loc = <<>>
  /\ results = <<>>

\* the first call passes opts; a later call passes opts with the seed the
\* first result reported
CallOptions ==
  IF results = <<>> THEN opts
  ELSE [opts EXCEPT !.seedGiven = TRUE, !.seed = results[1].seed]

LoopPc(starts, idx) == IF idx > Len(starts) THEN "return" ELSE "basic"

\* the locals of the loop over the start points g.points
StartLoc(g) == [starts |-> g.points, idx |-> 1, s |-> g.s]

\* lines 347-358: the locals of the basic loop and the start points
BasicStart(o) ==
  /\ lines' = <<>>
  /\ spatialIndex' = IF o.separationDistance > 0
               THEN SpatialGrid(o.separationDistance) ELSE NullGrid
  /\ IF o.startPointsGiven
       THEN /\ loc' = StartLoc([points |-> o.startPoints, s |-> rngState])
            /\ pc' = LoopPc(o.startPoints, 1)
       ELSE IF o.evenDistribution
         THEN /\ loc' = PoissonInit(o.width, o.height, o.lineCount, o.margin,
                                    o.seed)
              /\ pc' = "poisson"
         ELSE /\ loc' = StartLoc(generateStartPoints(o.width, o.height,
                                   o.lineCount, o.margin, o.seed))
              /\ pc' = LoopPc(loc'.starts, 1)
  /\ rngState' = loc'.s

\* generateStreamlines up to its while loop
StreamStart(o) ==
  /\ lines' = <<>>
  /\ spatialIndex' = SpatialGrid(Max(Mul(o.minSeparation, HALF), ONE))
  /\ loc' = StreamInit(o)
  /\ rngState' = loc'.s
  /\ pc' = IF StreamActive(loc', <<>>, o.lineCount) THEN "fill" ELSE "return"

\* generateSwarmLines up to its while loop
SwarmStart(o) ==
  /\ lines' = <<>>
  /\ spatialIndex' = NullGrid
  /\ loc' = SwarmInit(SwarmConfig(o, flowField'), o.seed)
  /\ rngState' = loc'.s
  /\ pc' = "swarm"

\* generateFormHatching up to the loop over the seeds
HatchLoc(sd) == [seeds |-> sd.seeds, idx |-> 1, s |-> sd.s, trail |-> <<>>]
HatchStart(o) ==
  /\ lines' = <<>>
  /\ spatialIndex' = NullGrid
  /\ loc' = HatchLoc(HatchSeeds(HatchConfig(o)))
  /\ rngState' = loc'.s
  /\ pc' = HatchPc(loc'.seeds, 1, <<>>, o.lineCount)

\* the options as the destructuring leaves them: r is the default seed drawn
Destructure(o, r) ==
  [o EXCEPT !.seedGiven = TRUE, !.seed = IF o.seedGiven THEN o.seed ELSE r]

\* generateFlowLines with fill mode tested before the other modes
CallFillFirst ==
  /\ pc = "idle"
  /\ Len(results) < MaxCalls
  /\ \E r \in RandomSeeds : cfg' = Destructure(CallOptions, r)
  /\ flowField' = FlowField([width |-> cfg'.width, height |-> cfg'.height,
                         resolution |-> cfg'.fieldResolution,
                         seed |-> cfg'.seed, noiseScale |-> cfg'.noiseScale,
                         octaves |-> cfg'.octaves,
                         persistence |-> cfg'.persistence,
                         lacunarity |-> cfg'.lacunarity])
  /\ IF cfg'.fillMode /\ cfg'.separationDistance > 0
       THEN StreamStart(cfg')
     ELSE IF cfg'.formHatchingMode THEN HatchStart(cfg')
     ELSE IF cfg'.swarmMode THEN SwarmStart(cfg')
     ELSE BasicStart(cfg')
  /\ UNCHANGED <<opts, results>>

\* generateFlowLines, lines 247-358
Call ==
  /\ pc = "idle"
  /\ Len(results) < MaxCalls
  /\ \E r \in RandomSeeds : cfg' = Destructure(CallOptions, r)
  /\ flowField' = FlowField([width |-> cfg'.width, height |-> cfg'.height,
                         resolution |-> cfg'.fieldResolution,
                         seed |-> cfg'.seed, noiseScale |-> cfg'.noiseScale,
                         octaves |-> cfg'.octaves,
                         persistence |-> cfg'.persistence,
                         lacunarity |-> cfg'.lacunarity])
  /\ IF cfg'.formHatchingMode THEN HatchStart(cfg')
     ELSE IF cfg'.swarmMode THEN SwarmStart(cfg')
     ELSE IF cfg'.fillMode /\ cfg'.separationDistance > 0
       THEN StreamStart(cfg')
     ELSE BasicStart(cfg')
  /\ UNCHANGED <<opts, results>>

\* one iteration of the sampler's while loop, or its end
PoissonStep ==
  /\ pc = "poisson"
  /\ IF PoissonActive(loc)
       THEN /\ loc' = PoissonIteration(loc)
            /\ pc' = pc
       ELSE /\ loc' = StartLoc(PoissonResult(loc))
            /\ pc' = LoopPc(loc'.starts, 1)
  /\ rngState' = loc'.s
  /\ UNCHANGED <<opts, cfg, flowField, lines, spatialIndex, results>>

\* the line the loop body makes of one start point, lines 366-377
Smoothed(line) ==
  IF cfg.smoothing > 0 /\ Len(line) > 2
    THEN smoothLine(line, cfg.smoothing) ELSE line
BodyLine(start) ==
  Smoothed(IF cfg.bidirectional
             THEN traceLineBidirectional(flowField, start, cfg.stepLength,
                    cfg.maxSteps, cfg.margin, cfg.attractors, spatialIndex,
                    cfg.separationDistance)
             ELSE traceLine(flowField, start, cfg.stepLength, cfg.maxSteps,
                    cfg.margin, cfg.attractors, spatialIndex,
                    cfg.separationDistance))

\* lines 379-385: the line is kept when it is long enough
Keep(line) ==
  /\ lines' = IF Len(line) >= cfg.minLineLength
                THEN Append(lines, line) ELSE lines
  /\ spatialIndex' = IF Len(line) >= cfg.minLineLength
                          /\ IsGrid(spatialIndex)
                       THEN addLine(spatialIndex, line) ELSE spatialIndex

\* one iteration of the loop over the start points, lines 360-386
TraceStart ==
  /\ pc = "basic"
  /\ IF IsGrid(spatialIndex)
          /\ hasNearby(spatialIndex, loc.starts[loc.idx].x,
                       loc.starts[loc.idx].y, cfg.separationDistance)
       THEN UNCHANGED <<lines, spatialIndex>>
       ELSE Keep(BodyLine(loc.starts[loc.idx]))
  /\ loc' = [loc EXCEPT !.idx = @ + 1]
  /\ pc' = LoopPc(loc.starts, loc.idx + 1)
  /\ UNCHANGED <<opts, cfg, flowField, rngState, results>>

\* one iteration of the while loop of generateStreamlines
StreamStep ==
  /\ pc = "fill"
  /\ loc' = StreamIteration(StreamConfig(cfg, flowField), loc, lines,
                            spatialIndex)
  /\ lines' = IF loc'.emit THEN Append(lines, loc'.finalLine) ELSE lines
  /\ spatialIndex' =
       IF loc'.emit /\ ~loc'.skipCollisionCheck
         THEN addLine(spatialIndex,
                      GridSample(loc'.finalLine,
                                 GridSampleRate(loc'.effectiveSep)))
         ELSE spatialIndex
  /\ rngState' = loc'.s
  /\ pc' = IF StreamActive(loc', lines', cfg.lineCount)
             THEN "fill" ELSE "return"
  /\ UNCHANGED <<opts, cfg, flowField, results>>

\* one iteration of the while loop of generateSwarmLines or, when its
\* condition fails, the closing loop over the agents
SwarmStep ==
  /\ pc = "swarm"
  /\ IF SwarmActive(loc, lines, SwarmConfig(cfg, flowField))
       THEN /\ loc' = SwarmIteration(SwarmConfig(cfg, flowField), loc)
            /\ lines' = lines \o loc'.emitted
            /\ pc' = pc
       ELSE /\ loc' = loc
            /\ lines' = RemainingTrails(loc.agents, 1, cfg.minLineLength,
                                        lines)
            /\ pc' = "return"
  /\ rngState' = loc'.s
  /\ UNCHANGED <<opts, cfg, flowField, spatialIndex, results>>

\* one iteration of the loop over the seeds of generateFormHatching
HatchTraced(st, t) ==
  [st EXCEPT !.idx = @ + 1, !.s = t.s, !.trail = t.trail]
HatchStep ==
  /\ pc = "hatch"
  /\ loc' = HatchTraced(loc, HatchTrail(HatchConfig(cfg), loc.seeds[loc.idx],
                                        loc.s))
  /\ lines' = IF Len(loc'.trail) >= cfg.minLineLength
                THEN Append(lines, loc'.trail) ELSE lines
  /\ pc' = HatchPc(loc.seeds, loc'.idx, lines', cfg.lineCount)
  /\ rngState' = loc'.s
  /\ UNCHANGED <<opts, cfg, flowField, spatialIndex, results>>

\* a result that echoes the seed option as the caller passed it
ResultOfOptions(ls, c) ==
  [lines |-> ls, width |-> c.width, height |-> c.height, seed |-> opts.seed]
\* the object generateFlowLines returns
ResultOf(ls, c) ==
  [lines |-> ls, width |-> c.width, height |-> c.height, seed |-> c.seed]

\* the return statement
Return ==
  /\ pc = "return"
  /\ results' = Append(results, ResultOf(lines, cfg))
  /\ pc' = "idle"
  /\ UNCHANGED <<opts, cfg, flowField, rngState, lines, spatialIndex, loc>>

Next ==
  Call \/ PoissonStep \/ TraceStart \/ StreamStep \/ SwarmStep \/ HatchStep
    \/ Return

Spec == Init /\ [][Next]_vars

(***************************************************************************)
(* The SVG serializer (svg.ts).  A document is the svg element with the    *)
(* list of its children; path data is the list of its commands; a number   *)
(* formatted by toFixed is its sign, its precision and its digits.         *)
(***************************************************************************)
\* perpendicularDistance: the distance from point to the segment
SegmentDistance(point, lineStart, dx, dy, t) ==
  Sqrt(Sq(point.x - (lineStart.x + Mul(t, dx)))
         + Sq(point.y - (lineStart.y + Mul(t, dy))))
Projection(point, lineStart, dx, dy, lengthSq) ==
  IF lengthSq = 0
    THEN Sqrt(Sq(point.x - lineStart.x) + Sq(point.y - lineStart.y))
    ELSE SegmentDistance(point, lineStart, dx, dy,
           Max(0, Min(ONE, Div(Mul(point.x - lineStart.x, dx)
                                 + Mul(point.y - lineStart.y, dy),
                               lengthSq))))
SegmentVector(point, lineStart, dx, dy) ==
  Projection(point, lineStart, dx, dy, Sq(dx) + Sq(dy))
perpendicularDistance(point, lineStart, lineEnd) ==
  SegmentVector(point, lineStart, lineEnd.x - lineStart.x,
                lineEnd.y - lineStart.y)

\* optimizePoints, lines 93-105: the first interior point farthest from
\* the chord (indices from 1; maxIndex 1 is the program's 0)
FartherOf(best, i, dist) ==
  IF dist > best.maxDist THEN [maxDist |-> dist, maxIndex |-> i] ELSE best
RECURSIVE FarthestFrom(_, _, _)
FarthestFrom(points, i, best) ==
  IF i > Len(points) - 1 THEN best
  ELSE FarthestFrom(points, i + 1,
                    FartherOf(best, i,
                              perpendicularDistance(points[i], points[1],
                                                    points[Len(points)])))
\* a scan that leaves out the first interior point
FarthestAfterFirst(points) ==
  FarthestFrom(points, 3, [maxDist |-> 0, maxIndex |-> 1])
Farthest(points) == FarthestFrom(points, 2, [maxDist |-> 0, maxIndex |-> 1])

RECURSIVE optimizePoints(_, _)
Stitch(left, right) == SubSeq(left, 1, Len(left) - 1) \o right
SplitAt(points, epsilon, far) ==
  IF far.maxDist > epsilon
    THEN Stitch(optimizePoints(SubSeq(points, 1, far.maxIndex), epsilon),
                optimizePoints(SubSeq(points, far.maxIndex, Len(points)),
                               epsilon))
    ELSE <<points[1], points[Len(points)]>>
optimizePoints(points, epsilon) ==
  IF Len(points) < 3 THEN points
  ELSE SplitAt(points, epsilon, Farthest(points))

\* n.toFixed(precision): the nearest multiple of 10^-precision, the larger
\* magnitude on a tie, and the sign of n
formatNum(n, precision) ==
  [negative |-> n < 0, precision |-> precision,
   digits |-> (Abs(n) + (ONE \div 10 ^ precision) \div 2)
                \div (ONE \div 10 ^ precision)]
Formatted(p, precision) ==
  <<formatNum(p.x, precision), formatNum(p.y, precision)>>

MoveTo(p, precision) == [cmd |-> "M", at |-> Formatted(p, precision)]
LineTo(p, precision) == [cmd |-> "L", at |-> Formatted(p, precision)]
Midpoint(current, next) ==
  Pt(Div(current.x + next.x, 2 * ONE), Div(current.y + next.y, 2 * ONE))
CurveTo(current, next, precision) ==
  [cmd |-> "Q", control |-> Formatted(current, precision),
   at |-> Formatted(Midpoint(current, next), precision)]

\* lineToPath, lines 60-81: the path data of two or more points
PathData(points, precision) ==
  IF Len(points) = 2
    THEN <<MoveTo(points[1], precision), LineTo(points[2], precision)>>
    ELSE <<MoveTo(points[1], precision)>>
           \o [i \in 1 .. Len(points) - 2 |->
                 CurveTo(points[i + 1], points[i + 2], precision)]
           \o <<LineTo(points[Len(points)], precision)>>
PathOf(points, precision) ==
  IF Len(points) < 2 THEN <<>> ELSE PathData(points, precision)
\* a serializer that draws lines of three or more points only
lineToCurve(line, precision, optimize) ==
  IF Len(line) < 3 THEN <<>>
  ELSE PathOf(IF optimize THEN optimizePoints(line, HALF) ELSE line, precision)
lineToPath(line, precision, optimize) ==
  IF Len(line) < 2 THEN <<>>
  ELSE PathOf(IF optimize THEN optimizePoints(line, HALF) ELSE line, precision)

\* the destructuring of the options, lines 16-23
SvgDefaults ==
  [strokeColor |-> "#000000", strokeWidth |-> ONE,
   backgroundColor |-> "#ffffff", includeBackground |-> FALSE,
   precision |-> 2, optimizePaths |-> TRUE]
Option(options, key) ==
  IF key \in DOMAIN options THEN options[key] ELSE SvgDefaults[key]

NonEmpty(path) == Len(path) > 0
Paths(result, options) ==
  SelectSeq([i \in 1 .. Len(result.lines) |->
               lineToPath(result.lines[i], Option(options, "precision"),
                          Option(options, "optimizePaths"))],
            NonEmpty)
RectElement(result, options) ==
  [tag |-> "rect", width |-> result.width, height |-> result.height,
   fill |-> Option(options, "backgroundColor")]
\* a rectangle that is written whatever includeBackground says
AlwaysRect(result, options) == <<RectElement(result, options)>>
BackgroundRect(result, options) ==
  IF Option(options, "includeBackground")
    THEN <<RectElement(result, options)>> ELSE <<>>
PathElements(paths, options) ==
  [i \in 1 .. Len(paths) |->
     [tag |-> "path", d |-> paths[i], fill |-> "none",
      stroke |-> Option(options, "strokeColor"),
      strokeWidth |-> Option(options, "strokeWidth")]]
toSVG(result, options) ==
  [tag |-> "svg", width |-> result.width, height |-> result.height,
   children |-> BackgroundRect(result, options)
                  \o PathElements(Paths(result, options), options)]

(***************************************************************************)
(* optimizePoints applied twice: the polyline and epsilon are drawn by     *)
(* Init, Simplify and SimplifyAgain apply the simplifier                   *)
(***************************************************************************)
MaxPoints == 5
MaxY == 2

\* the polylines that advance one unit in x at every point
Graphs(n) == {[i \in 1 .. n |-> Pt(Fix(i - 1), Fix(ys[i]))] : ys \in [1 .. n -> 0 .. MaxY]}
\* the polylines of four points from the origin that may turn back and
\* repeat a point
Square == {Pt(Fix(x), Fix(y)) : x \in 0 .. MaxY, y \in 0 .. MaxY}
Loops == {<<Pt(0, 0)>> \o rest : rest \in [1 .. 3 -> Square]}
Polylines == UNION {Graphs(n) : n \in 2 .. MaxPoints} \cup Loops
Epsilons == {HALF, ONE}

Idle == <<>>

RdpInit ==
  /\ lines \in Polylines
  /\ opts \in Epsilons
  /\ pc = "simplify"
  /\ loc = <<>>
  /\ results = <<>>
  /\ cfg = Idle /\ flowField = Idle /\ rngState = 0 /\ spatialIndex = NullGrid

Simplify ==
  /\ pc = "simplify"
  /\ results' = <<optimizePoints(lines, opts)>>
  /\ pc' = "again"
  /\ UNCHANGED <<opts, cfg, flowField, rngState, lines, spatialIndex, loc>>

SimplifyAgain ==
  /\ pc = "again"
  /\ results' = Append(results, optimizePoints(results[1], opts))
  /\ pc' = "simplified"
  /\ UNCHANGED <<opts, cfg, flowField, rngState, lines, spatialIndex, loc>>

RdpNext == Simplify \/ SimplifyAgain
RdpSpec == RdpInit /\ [][RdpNext]_vars

(***************************************************************************)
(* toSVG applied to a result: the lines and the options are drawn by Init  *)
(***************************************************************************)
SvgLines ==
  { <<>>,
    << <<Pt(Fix(1), Fix(1)), Pt(Fix(2), Fix(1))>> >>,
    << <<Pt(Fix(1), Fix(1))>>, <<Pt(Fix(3), Fix(2)), Pt(Fix(4), Fix(2))>> >>,
    << <<>>, <<Pt(Fix(1), Fix(2)), Pt(Fix(2), Fix(2)), Pt(Fix(3), Fix(2))>>,
       <<Pt(Fix(5), Fix(5))>>,
       <<Pt(Fix(2), Fix(1)), Pt(Fix(3), Fix(3)), Pt(Fix(4), Fix(1))>>,
       <<Pt(Fix(6), Fix(1)), Pt(Fix(6), Fix(5))>> >>,
    << <<Pt(Fix(4), Fix(4)), Pt(Fix(4), Fix(4)), Pt(Fix(4), Fix(4))>>,
       <<Pt(Fix(1), Fix(1)), Pt(Fix(1) + 100 * KILO, Fix(1) + 200 * KILO),
         Pt(Fix(1), Fix(1))>> >>,
    << <<Pt(0 - 1234, 1005000), Pt(2995000, 0 - 4999), Pt(Fix(5), 1234567),
         Pt(Fix(6), Fix(3))>>,
       <<Pt(Fix(7), Fix(7)), Pt(Fix(7), Fix(7))>> >> }
SvgColors == {"#ffffff", "#123456"}
\* the options objects: any of the keys may be left out
SvgOptions ==
  {[k \in {} |-> TRUE]}
    \cup {[includeBackground |-> b] : b \in BOOLEAN}
    \cup {[includeBackground |-> b, backgroundColor |-> c] :
            b \in BOOLEAN, c \in SvgColors}
    \cup {[backgroundColor |-> c, strokeColor |-> c] : c \in SvgColors}
    \cup {[includeBackground |-> b, optimizePaths |-> o, precision |-> p] :
            b \in BOOLEAN, o \in BOOLEAN, p \in {0, 3}}
    \cup {[optimizePaths |-> FALSE, strokeWidth |-> HALF]}

SvgInit ==
  /\ lines \in SvgLines
  /\ opts \in SvgOptions
  /\ cfg \in {[width |-> Fix(8), height |-> Fix(6), seed |-> 42]}
  /\ pc = "serialize"
  /\ loc = <<>>
  /\ results = <<>>
  /\ flowField = Idle /\ rngState = 0 /\ spatialIndex = NullGrid

Serialize ==
  /\ pc = "serialize"
  /\ results' = <<toSVG([lines |-> lines, width |-> cfg.width,
                         height |-> cfg.height, seed |-> cfg.seed], opts)>>
  /\ pc' = "serialized"
  /\ UNCHANGED <<opts, cfg, flowField, rngState, lines, spatialIndex, loc>>

SvgNext == Serialize
SvgSpec == SvgInit /\ [][SvgNext]_vars

(***************************************************************************)
(* noise2D and fbm sampled: the seed, the coordinates and the octave count *)
(* are drawn by Init                                                       *)
(***************************************************************************)
MaxOctaves == 3
SampleSeeds == {42, 16531}
SampleCoords ==
  {0 - 2300 * KILO, 0 - 100 * KILO, 0, 250 * KILO, 788675, 1500 * KILO,
   Fix(100) + 333333}

NoiseInit ==
  /\ loc \in [seed : SampleSeeds, x : SampleCoords, y : SampleCoords,
              octaves : 0 .. MaxOctaves]
  /\ pc = "sample"
  /\ results = <<>>
  /\ opts = Idle /\ cfg = Idle /\ lines = <<>>
  /\ flowField = Idle /\ rngState = 0 /\ spatialIndex = NullGrid

Sample ==
  /\ pc = "sample"
  /\ results' = <<[noise2D |-> noise2D(SimplexNoise(loc.seed), loc.x, loc.y),
                   fbm |-> fbm(SimplexNoise(loc.seed), loc.x, loc.y,
                               loc.octaves, HALF, 2 * ONE)]>>
  /\ pc' = "sampled"
  /\ UNCHANGED <<opts, cfg, flowField, rngState, lines, spatialIndex, loc>>

NoiseNext == Sample
NoiseSpec == NoiseInit /\ [][NoiseNext]_vars

(***************************************************************************)
(* new FlowField(options) in every field mode: the options are drawn by    *)
(* Init, Generate builds the cached grid                                   *)
(***************************************************************************)
FieldCells == 3
FieldModes == {"normal", "curl", "spiral", "turbulent", "ridged", "warped"}
FieldOptions ==
  [width : {Fix(10 * FieldCells)}, height : {Fix(10 * (FieldCells - 1))},
   resolution : {Fix(10)}, seed : SampleSeeds,
   noiseScale : {5 * KILO, 100 * KILO}, octaves : 0 .. MaxOctaves - 1,
   persistence : {HALF}, lacunarity : {2 * ONE}, fieldMode : FieldModes,
   spiralStrength : {HALF}, warpStrength : {HALF}]

FieldInit ==
  /\ opts \in FieldOptions
  /\ pc = "construct"
  /\ flowField = Idle
  /\ cfg = Idle /\ lines = <<>> /\ loc = <<>> /\ results = <<>>
  /\ rngState = 0 /\ spatialIndex = NullGrid

Generate ==
  /\ pc = "construct"
  /\ flowField' = generateField(opts, CeilDiv(opts.width, opts.resolution),
                                CeilDiv(opts.height, opts.resolution),
                                SimplexNoise(opts.seed))
  /\ pc' = "constructed"
  /\ UNCHANGED <<opts, cfg, rngState, lines, spatialIndex, loc, results>>

FieldNext == Generate
FieldSpec == FieldInit /\ [][FieldNext]_vars

(***************************************************************************)
(* The life of one swarm agent in generateSwarmLines, from trySpawnAgent   *)
(* to the closing loop.  The trail is kept by its number of points and the *)
(* energy in whole units (energyDecayRate is 1); whether the new position  *)
(* is in bounds and whether it is deep in a void are inputs of each tick.  *)
(* lines holds the number of points of each line of completedLines.        *)
(***************************************************************************)
MaxEnergy == 5003
EnergyBudgets == {3, MaxTrail, MaxEnergy}

\* the agent trySpawnAgent returns: its trail holds the spawn position
TrailAgent(maxEnergy) ==
  [energy |-> maxEnergy, maxEnergy |-> maxEnergy, energyDecayRate |-> 1,
   trailLength |-> 1, isAlive |-> TRUE, stepsAlive |-> 0]
\* the end of updateSwarmAgent: the push onto the trail, then the energy
TrailStepped(agent) ==
  [agent EXCEPT !.trailLength = @ + 1,
                !.energy = @ - agent.energyDecayRate,
                !.stepsAlive = @ + 1]
\* shouldAgentTerminate on the agent updateSwarmAgent leaves
TrailTerminates(agent, inBounds, deepVoid) ==
  \/ agent.energy <= 0
  \/ ~inBounds
  \/ deepVoid
  \/ agent.trailLength > MaxTrail
\* the push of a trail of at least minLineLength points
TrailPushed(completed, agent, minLineLength) ==
  IF agent.trailLength >= minLineLength
    THEN Append(completed, agent.trailLength)
    ELSE completed

TrailInit ==
  /\ opts \in [minLineLength : {2, 10}, maxEnergy : EnergyBudgets]
  /\ pc = "spawn"
  /\ loc = Idle /\ lines = <<>>
  /\ cfg = Idle /\ flowField = Idle /\ results = <<>>
  /\ rngState = 0 /\ spatialIndex = NullGrid

TrailSpawn ==
  /\ pc = "spawn"
  /\ loc' = TrailAgent(opts.maxEnergy)
  /\ pc' = "simulate"
  /\ UNCHANGED <<opts, cfg, flowField, rngState, lines, spatialIndex, results>>

\* one pass of the while loop for a living agent
TrailTicked(moved, inBounds, deepVoid) ==
  IF TrailTerminates(moved, inBounds, deepVoid)
    THEN /\ loc' = [moved EXCEPT !.isAlive = FALSE]
         /\ lines' = TrailPushed(lines, moved, opts.minLineLength)
    ELSE /\ loc' = moved
         /\ lines' = lines
TrailTick ==
  /\ pc = "simulate"
  /\ loc.isAlive
  /\ \E inBounds \in BOOLEAN, deepVoid \in BOOLEAN :
       TrailTicked(TrailStepped(loc), inBounds, deepVoid)
  /\ pc' = pc
  /\ UNCHANGED <<opts, cfg, flowField, rngState, spatialIndex, results>>

\* the while loop ends when no agent is alive; the closing loop follows
TrailCollect ==
  /\ pc = "simulate"
  /\ ~loc.isAlive
  /\ lines' = TrailPushed(lines, loc, opts.minLineLength)
  /\ pc' = "return"
  /\ UNCHANGED <<opts, cfg, flowField, rngState, spatialIndex, loc, results>>

TrailNext == TrailSpawn \/ TrailTick \/ TrailCollect
TrailSpec == TrailInit /\ [][TrailNext]_vars

(***************************************************************************)
(* SpatialGrid on its own: a grid of some cell size, points added one by   *)
(* one, and queries.  results holds the last query with its answer and the *)
(* number of points the grid held when it was asked.                       *)
(***************************************************************************)
MaxAdds == 2
GridCellSizes == {HALF, ONE, 4 * ONE}
GridPoints == {Pt(x, y) : x \in {0 - 5 * HALF, 0, 8 * ONE - 2}, y \in {0 - ONE, 2 * ONE}}
QueryPoints == {Pt(x, y) : x \in {0 - 5 * HALF, 4 * ONE - 3}, y \in {0 - ONE, 2 * ONE}}
QueryDistances == {0, 3 * HALF, 4 * ONE + 2, 11 * HALF}

GridInit ==
  /\ spatialIndex \in {SpatialGrid(c) : c \in GridCellSizes}
  /\ pc = "grid"
  /\ results = <<>>
  /\ opts = Idle /\ cfg = Idle /\ flowField = Idle /\ lines = <<>>
  /\ loc = <<>> /\ rngState = 0

GridAdd ==
  /\ pc = "grid"
  /\ Len(spatialIndex.entries) < MaxAdds
  /\ \E p \in GridPoints : spatialIndex' = add(spatialIndex, p.x, p.y)
  /\ UNCHANGED <<opts, cfg, pc, flowField, rngState, lines, loc, results>>

GridQuery ==
  /\ pc = "grid"
  /\ \E q \in QueryPoints, distance \in QueryDistances :
       results' = <<[x |-> q.x, y |-> q.y, distance |-> distance,
                     found |-> hasNearby(spatialIndex, q.x, q.y, distance),
                     size |-> Len(spatialIndex.entries)]>>
  /\ UNCHANGED <<opts, cfg, pc, flowField, rngState, lines, loc,
                 spatialIndex>>

GridNext == GridAdd \/ GridQuery
GridSpec == GridInit /\ [][GridNext]_vars

(***************************************************************************)
(* generateFlowLinesGrid (flow-lines.ts): the start points on a grid, then *)
(* generateFlowLines with them.  opts is the caller's options object, with *)
(* its gridSpacing.                                                        *)
(***************************************************************************)
\* the inner loop over x of one row y
RECURSIVE GridRow(_, _, _, _)
GridRow(o, x, y, startPoints) ==
  IF x < o.width - o.margin
    THEN GridRow(o, x + o.gridSpacing, y, Append(startPoints, Pt(x, y)))
    ELSE startPoints
\* the outer loop over y
RECURSIVE GridRows(_, _, _)
GridRows(o, y, startPoints) ==
  IF y < o.height - o.margin
    THEN GridRows(o, y + o.gridSpacing, GridRow(o, o.margin, y, startPoints))
    ELSE startPoints
\* the options generateFlowLinesGrid passes on: rest, margin, lineCount and
\* startPoints
generateFlowLinesGrid(o) ==
  [f \in DOMAIN o \ {"gridSpacing"} |->
     IF f = "startPoints" THEN GridRows(o, o.margin, <<>>)
     ELSE IF f = "startPointsGiven" THEN TRUE
     ELSE IF f = "lineCount" THEN Len(GridRows(o, o.margin, <<>>))
     ELSE o[f]]

GridRequests ==
  {[f \in DOMAIN BaseOptions \cup {"gridSpacing"} |->
      IF f = "gridSpacing" THEN gridSpacing
      ELSE IF f = "width" THEN width
      ELSE IF f = "height" THEN height
      ELSE IF f = "margin" THEN margin
      ELSE IF f = "minLineLength" THEN 1
      ELSE BaseOptions[f]] :
     width \in {Fix(CanvasUnits) - 4 * ONE, Fix(CanvasUnits)},
     height \in {Fix(CanvasUnits) - 2 * ONE, Fix(CanvasUnits)},
     margin \in {2 * ONE, Fix(MarginUnits)},
     gridSpacing \in {3 * ONE, 4 * ONE, 5 * ONE}}

GridLinesInit ==
  /\ opts \in GridRequests
  /\ cfg = Idle
  /\ pc = "idle"
  /\ flowField = Idle
  /\ rngState = 0
  /\ lines = <<>>
  /\ spatialIndex = NullGrid
  /\ loc = <<>>
  /\ results = <<>>

\* generateFlowLinesGrid up to the loop of generateFlowLines over the start
\* points
GridLinesCall ==
  /\ pc = "idle"
  /\ results = <<>>
  /\ cfg' = Destructure(generateFlowLinesGrid(opts), 0)
  /\ flowField' = FlowField([width |-> cfg'.width, height |-> cfg'.height,
                         resolution |-> cfg'.fieldResolution,
                         seed |-> cfg'.seed, noiseScale |-> cfg'.noiseScale,
                         octaves |-> cfg'.octaves,
                         persistence |-> cfg'.persistence,
                         lacunarity |-> cfg'.lacunarity])
  /\ BasicStart(cfg')
  /\ UNCHANGED <<opts, results>>

GridLinesNext == GridLinesCall \/ TraceStart \/ Return
GridLinesSpec == GridLinesInit /\ [][GridLinesNext]_vars

(***************************************************************************)
(* Properties of generateFlowLines                                         *)
(***************************************************************************)
\* neither fill, swarm nor form hatching is asked for
PlainMode(c) == ~c.fillMode /\ ~c.swarmMode /\ ~c.formHatchingMode

InMargin(c, p) ==
  /\ c.margin <= p.x /\ p.x < c.width - c.margin
  /\ c.margin <= p.y /\ p.y < c.height - c.margin

\* C2: in basic mode with library-generated start points and width,
\* height > 2 * margin, every point of every line the call returns lies in
\* margin <= x < width - margin, margin <= y < height - margin.
C2_MarginBounds ==
  (/\ pc = "return" /\ PlainMode(cfg) /\ ~cfg.startPointsGiven
   /\ cfg.width > 2 * cfg.margin /\ cfg.height > 2 * cfg.margin)
    => \A i \in 1 .. Len(lines) :
         \A k \in 1 .. Len(lines[i]) : InMargin(cfg, lines[i][k])

C4_Case(c) ==
  /\ PlainMode(c) /\ c.startPointsGiven /\ ~c.bidirectional
  /\ c.separationDistance = 0 /\ c.minLineLength <= 1

\* C4: in basic non-bidirectional mode with separation off and
\* minLineLength <= 1, explicit start points give exactly one line per
\* start point, in order, each beginning at its start point (smoothing on
\* or off).
C4_OneLinePerStart ==
  (pc = "return" /\ C4_Case(cfg))
    => /\ Len(lines) = Len(cfg.startPoints)
       /\ \A i \in 1 .. Len(lines) : lines[i][1] = cfg.startPoints[i]

C4_Witness ==
  /\ pc = "return" /\ C4_Case(cfg) /\ cfg.smoothing > 0
  /\ Len(lines) = 3
  /\ \E i \in 1 .. Len(lines) : Len(lines[i]) > MaxSteps + 1
  /\ \E i \in 1 .. Len(lines) : ~InMargin(cfg, lines[i][1])

\* C5: every result echoes the width and the height passed and the seed
\* the call used; when the seed was omitted, the call repeated with the
\* first result's seed returns the first result's lines.
C5_EchoAndReplay ==
  /\ \A i \in 1 .. Len(results) :
       /\ results[i].width = opts.width
       /\ results[i].height = opts.height
       /\ opts.seedGiven => results[i].seed = opts.seed
       /\ ~opts.seedGiven => results[i].lines = results[1].lines
  /\ (pc = "idle" /\ results # <<>>)
       => results[Len(results)].seed = cfg.seed

C5_Witness ==
  /\ ~opts.seedGiven /\ Len(results) = 2 /\ results[1].seed # 0
  /\ Len(results[2].lines) > 1
  /\ results[2].lines = results[1].lines

\* the call runs generateStreamlines
FillRun ==
  /\ pc \in {"fill", "return"}
  /\ cfg.fillMode /\ cfg.separationDistance > 0

\* half the local separation at q: the distance traceStreamlineVariable
\* tests its points with
CollisionThreshold(q) ==
  Mul(calculateSeparationWithConfig(q.x, q.y, cfg.separationDistance,
                                    DensityConfig(cfg)),
      HALF)
TooClose(p, q) == Sq(p.x - q.x) + Sq(p.y - q.y) < Sq(CollisionThreshold(q))

\* C6: in fill mode, for two emitted lines both traced with the collision
\* check active, no point of the later line is closer to a point of the
\* earlier line than the collision threshold at that point (half the local
\* separation, the weakest reading of the claim's threshold).
C6_FillSeparation ==
  FillRun =>
    \A j \in 1 .. Len(lines) : \A i \in 1 .. j - 1 :
      (loc.traced[i] /\ loc.traced[j])
        => \A k \in 1 .. Len(lines[j]) : \A h \in 1 .. Len(lines[i]) :
             ~TooClose(lines[i][h], lines[j][k])

\* C1: with an explicitly supplied seed and a fixed configuration, every
\* call returns the result the first call returned (same lines, same
\* points, same order), in every mode: no draw of a call depends on what
\* an earlier call left behind.
C1_Determinism ==
  opts.seedGiven => \A i \in 1 .. Len(results) : results[i] = results[1]

C1_Witness ==
  /\ opts.seedGiven /\ Len(results) = 2
  /\ opts.swarmMode /\ ~opts.formHatchingMode
  /\ Len(results[2].lines) > 1
  /\ rngState # opts.seed

\* C3: in every mode, no line of a returned result has fewer than
\* minLineLength points.
C3_MinLineLength ==
  \A r \in 1 .. Len(results) : \A i \in 1 .. Len(results[r].lines) :
    Len(results[r].lines[i]) >= opts.minLineLength

C3_Witness ==
  /\ Len(results) = 1 /\ pc = "idle"
  /\ opts.swarmMode /\ ~opts.formHatchingMode
  /\ results[1].lines # <<>>
  /\ \E k \in 1 .. Len(loc.agents) :
       Len(loc.agents[k].trail) < opts.minLineLength

\* C7: optimizePoints is idempotent: simplifying an already simplified
\* polyline with the same epsilon returns it unchanged, also when several
\* interior points tie for the maximum distance from the chord.
C7_Idempotent == pc = "simplified" => results[2] = results[1]

\* two interior points tie for the maximum, the split is taken and points
\* are dropped
C7_Witness ==
  /\ pc = "simplified"
  /\ Len(results[1]) > 2 /\ Len(results[1]) < Len(lines)
  /\ \E i, j \in 2 .. Len(lines) - 1 :
       /\ i < j
       /\ Farthest(lines).maxIndex = i
       /\ Farthest(lines).maxDist > opts
       /\ perpendicularDistance(lines[j], lines[1], lines[Len(lines)])
            = Farthest(lines).maxDist

RectsOf(doc) ==
  {i \in 1 .. Len(doc.children) : doc.children[i].tag = "rect"}
BackgroundAsked ==
  "includeBackground" \in DOMAIN opts /\ opts.includeBackground

\* C8: the document has a background rect exactly when includeBackground
\* is true; the rect is filled with backgroundColor and comes before every
\* path; with default options the document has no rect.
C8_BackgroundRect ==
  pc = "serialized" =>
    /\ (RectsOf(results[1]) # {}) <=> BackgroundAsked
    /\ RectsOf(results[1]) \subseteq {1}
    /\ \A i \in RectsOf(results[1]) :
         results[1].children[i].fill
           = (IF "backgroundColor" \in DOMAIN opts
                THEN opts.backgroundColor ELSE "#ffffff")
    /\ (DOMAIN opts = {}) => (RectsOf(results[1]) = {})

C8_Witness ==
  /\ pc = "serialized"
  /\ BackgroundAsked
  /\ "backgroundColor" \in DOMAIN opts /\ opts.backgroundColor # "#ffffff"
  /\ Len(results[1].children) > 2
  /\ results[1].children[1].tag = "rect"

Drawable(line) == Len(line) >= 2
IsPath(element) == element.tag = "path"
PrecisionAsked == IF "precision" \in DOMAIN opts THEN opts.precision ELSE 2

\* C9: the document has one path per input line of two or more points, in
\* input order (the k-th path starts at the first point of the k-th such
\* line and ends at its last point), and none for shorter lines; with
\* optimizePaths on, no line of two or more points is left out.
C9_OnePathPerLine ==
  pc = "serialized" =>
    /\ Len(SelectSeq(results[1].children, IsPath))
         = Len(SelectSeq(lines, Drawable))
    /\ \A k \in 1 .. Len(SelectSeq(results[1].children, IsPath)) :
         /\ SelectSeq(results[1].children, IsPath)[k].d[1]
              = MoveTo(SelectSeq(lines, Drawable)[k][1], PrecisionAsked)
         /\ SelectSeq(results[1].children, IsPath)[k].d[
              Len(SelectSeq(results[1].children, IsPath)[k].d)]
              = LineTo(SelectSeq(lines, Drawable)[k][
                         Len(SelectSeq(lines, Drawable)[k])],
                       PrecisionAsked)

\* lines of fewer than two points are skipped, a line of exactly two points
\* is drawn, and the simplifier, switched on, has taken points away
C9_Witness ==
  /\ pc = "serialized"
  /\ Option(opts, "optimizePaths")
  /\ Len(SelectSeq(lines, Drawable)) > 1
  /\ Len(SelectSeq(lines, Drawable)) < Len(lines)
  /\ \E k \in 1 .. Len(SelectSeq(lines, Drawable)) :
       /\ Len(SelectSeq(lines, Drawable)[k]) > 2
       /\ Len(SelectSeq(results[1].children, IsPath)[k].d) = 2
  /\ \E k \in 1 .. Len(SelectSeq(lines, Drawable)) :
       Len(SelectSeq(lines, Drawable)[k]) = 2

InUnitRange(v) == 0 - ONE <= v /\ v <= ONE

\* C10: noise2D and fbm return values in [-1, 1] for every seed,
\* coordinate and octave count, the octave count 0 included.
C10_NoiseRange ==
  pc = "sampled" =>
    InUnitRange(results[1].noise2D) /\ InUnitRange(results[1].fbm)

\* a vector of length one, up to the grain of the arithmetic
UnitLength(v) ==
  ~IsNaN(v.x) /\ ~IsNaN(v.y) /\ Abs(Sq(v.x) + Sq(v.y) - ONE) <= 20

\* C11: every cell of the grid the FlowField constructor caches holds a
\* vector of unit length, in every field mode.
C11_UnitCells ==
  pc = "constructed" =>
    \A row \in DOMAIN flowField : \A col \in DOMAIN flowField[row] :
      UnitLength(flowField[row][col])

\* the while condition of the swarm loop, read from the state
SwarmLoopCondition ==
  /\ \E k \in 1 .. Len(loc.agents) : loc.agents[k].isAlive
  /\ Len(lines) < cfg.lineCount
  /\ loc.iteration < cfg.maxSteps * 100

\* C12: the swarm simulation terminates: a tick is run only while some
\* agent is alive, fewer than lineCount lines are completed and fewer than
\* maxSteps * 100 ticks have run, and otherwise the loop is left for the
\* return; every tick adds one to a tick count that never passes
\* maxSteps * 100; and the agent list, appended to while a tick iterates
\* it, never holds more than ten times the initial agent count.
C12_SwarmTerminates ==
  /\ [][pc = "swarm" =>
         IF SwarmLoopCondition
           THEN pc' = "swarm" /\ loc'.iteration = loc.iteration + 1
           ELSE pc' = "return"]_vars
  /\ [](pc = "swarm" =>
          /\ loc.iteration <= cfg.maxSteps * 100
          /\ Len(loc.agents) <= cfg.swarmAgentCount * 10)

\* a finished swarm run in which agents were spawned during the ticks
C12_Witness ==
  /\ pc = "return" /\ cfg.swarmMode /\ ~cfg.formHatchingMode
  /\ loc.iteration > 1
  /\ Len(loc.agents) > cfg.swarmAgentCount

SwarmRun(c) == c.swarmMode /\ ~c.formHatchingMode

\* C13: in swarm mode a returned result never holds more lines than
\* lineCount.
C13_SwarmLineCap ==
  SwarmRun(opts) =>
    \A r \in 1 .. Len(results) : Len(results[r].lines) <= opts.lineCount

FillMode(c) ==
  c.fillMode /\ c.separationDistance > 0 /\ ~c.swarmMode
    /\ ~c.formHatchingMode

\* C14: fill mode terminates with at most lineCount lines: an iteration of
\* the loop is run only while the queue is not empty and fewer than
\* lineCount lines are emitted; it either emits exactly one line or leaves
\* the lines alone and shortens the queue by exactly one seed, so seeds are
\* added only by an emitting iteration; the loop is left as soon as the
\* condition fails; and no result holds more than lineCount lines.
C14_FillTerminates ==
  /\ [][pc = "fill" =>
         /\ Len(loc.seedQueue) > 0 /\ Len(lines) < cfg.lineCount
         /\ IF loc'.emit
              THEN Len(lines') = Len(lines) + 1
              ELSE lines' = lines
                     /\ Len(loc'.seedQueue) = Len(loc.seedQueue) - 1
         /\ pc' = IF Len(loc'.seedQueue) > 0 /\ Len(lines') < cfg.lineCount
                    THEN "fill" ELSE "return"]_vars
  /\ [](FillMode(opts) =>
          /\ pc \in {"fill", "return"} => Len(lines) <= cfg.lineCount
          /\ \A r \in 1 .. Len(results) :
               Len(results[r].lines) <= opts.lineCount)

\* a fill run that stopped at lineCount lines with seeds left in the queue
C14_Witness ==
  /\ pc = "return" /\ FillMode(cfg)
  /\ Len(lines) = cfg.lineCount /\ Len(lines) > 1
  /\ Len(loc.seedQueue) > Len(lines)

\* C15: in fill mode the seed about to be dequeued (the head of the queue
\* whenever the loop is about to run) has a priority at least as high as
\* every other seed in the queue.
C15_PriorityOrder ==
  pc = "fill" =>
    \A k \in 2 .. Len(loc.seedQueue) :
      loc.seedQueue[1].priority >= loc.seedQueue[k].priority

\* every point of every line of every returned result is inside the margin
AllInMargin ==
  \A r \in 1 .. Len(results) : \A i \in 1 .. Len(results[r].lines) :
    \A k \in 1 .. Len(results[r].lines[i]) :
      InMargin(opts, results[r].lines[i][k])

\* C16: in swarm mode every point of every returned line satisfies
\* margin <= x < width - margin and margin <= y < height - margin.
C16_SwarmInMargin == SwarmRun(opts) => AllInMargin

\* C17: in fill mode every point of every returned line satisfies
\* margin <= x < width - margin and margin <= y < height - margin.
C17_FillInMargin == FillMode(opts) => AllInMargin

\* C18: in form-hatching mode every point of every returned line satisfies
\* margin <= x < width - margin and margin <= y < height - margin, so a point
\* exactly on x = width - margin or y = height - margin is never emitted.
C18_HatchInMargin == opts.formHatchingMode => AllInMargin

\* C19: when a swarm run returns, the trail of each agent appears at most
\* once among the lines: an agent that terminated during the simulation is
\* not emitted a second time by the closing loop.
LinesOf(trail) == {i \in 1 .. Len(lines) : lines[i] = trail}
C19_OneLinePerAgent ==
  (pc = "return" /\ SwarmRun(cfg)) =>
    \A k \in 1 .. Len(loc.agents) :
      Cardinality(LinesOf(loc.agents[k].trail)) <= 1

\* C20: the trail of a swarm agent never holds more than 5000 points, and no
\* line pushed onto completedLines has more than 5000 points, whatever the
\* agent's energy is.
C20_TrailCap ==
  /\ pc \in {"simulate", "return"} => loc.trailLength <= MaxTrail
  /\ \A i \in 1 .. Len(lines) : lines[i] <= MaxTrail

\* C21: during a swarm run the number of agents ever created never exceeds
\* ten times the configured initial agent count, and no two agents share an
\* id.
DistinctIds(agents) ==
  \A j \in 1 .. Len(agents) : \A k \in 1 .. Len(agents) :
    agents[j].id = agents[k].id => j = k
C21_PopulationCap ==
  (pc \in {"swarm", "return"} /\ SwarmRun(cfg)) =>
    /\ Len(loc.agents) <= 10 * cfg.swarmAgentCount
    /\ DistinctIds(loc.agents)
C21_Witness ==
  /\ pc = "swarm" /\ SwarmRun(cfg)
  /\ Len(loc.agents) = 10 * cfg.swarmAgentCount
  /\ loc.nextId > Len(loc.agents)
  /\ \E k \in 1 .. Len(loc.agents) :
       /\ loc.agents[k].isAlive
       /\ loc.agents[k].energy > Mul(loc.agents[k].maxEnergy, 300 * KILO)

\* C22: when a living swarm agent with the energy to spawn calls
\* spawnChildAgent, a child that is created starts with between 0.4 and 0.7
\* of the parent's energy, the parent loses 0.3 times the child's energy and
\* keeps a strictly positive energy; when no child is created the parent's
\* energy is unchanged.
CanSpawn(agent) ==
  agent.isAlive /\ agent.energy > Mul(agent.maxEnergy, 300 * KILO)
SpawnTrial(parent) ==
  spawnChildAgent(parent, SwarmConfig(cfg, flowField), loc.s, loc.nextId,
                  flowField)
SpawnCost(parent, r) ==
  IF r.found
    THEN /\ Mul(parent.energy, 400 * KILO) <= r.agent.energy
         /\ r.agent.energy <= Mul(parent.energy, 700 * KILO)
         /\ r.parentEnergy = parent.energy - Mul(r.agent.energy, 300 * KILO)
         /\ r.parentEnergy > 0
    ELSE r.parentEnergy = parent.energy
C22_SpawnEnergy ==
  (pc = "swarm" /\ SwarmRun(cfg)) =>
    \A k \in 1 .. Len(loc.agents) :
      CanSpawn(loc.agents[k]) =>
        SpawnCost(loc.agents[k], SpawnTrial(loc.agents[k]))
C22_Witness ==
  /\ pc = "swarm" /\ SwarmRun(cfg)
  /\ Len(loc.agents) > cfg.swarmAgentCount
  /\ \E k \in 1 .. Len(loc.agents) :
       CanSpawn(loc.agents[k]) /\ SpawnTrial(loc.agents[k]).found
  /\ \E k \in 1 .. Len(loc.agents) :
       CanSpawn(loc.agents[k]) /\ ~SpawnTrial(loc.agents[k]).found

\* C23: in basic mode a line is emitted only if the trace it comes from,
\* before smoothing, has at least minLineLength points.
RawLine(start) ==
  IF cfg.bidirectional
    THEN traceLineBidirectional(flowField, start, cfg.stepLength,
           cfg.maxSteps, cfg.margin, cfg.attractors, spatialIndex,
           cfg.separationDistance)
    ELSE traceLine(flowField, start, cfg.stepLength, cfg.maxSteps,
           cfg.margin, cfg.attractors, spatialIndex, cfg.separationDistance)
C23_RawMinLength ==
  [][(pc = "basic" /\ Len(lines') > Len(lines)) =>
       Len(RawLine(loc.starts[loc.idx])) >= cfg.minLineLength]_vars

\* C24: in basic mode with separationDistance d > 0, no point of an emitted
\* line is closer than d to a point of a line emitted before it.
BasicRun(c) == ~c.formHatchingMode /\ ~c.swarmMode /\ ~FillMode(c)
Closer(p, q, d) == Sq(p.x - q.x) + Sq(p.y - q.y) < Sq(d)
C24_BasicSeparation ==
  (pc \in {"basic", "return"} /\ BasicRun(cfg) /\ cfg.separationDistance > 0)
    => \A j \in 1 .. Len(lines) : \A i \in 1 .. j - 1 :
         \A k \in 1 .. Len(lines[j]) : \A h \in 1 .. Len(lines[i]) :
           ~Closer(lines[j][k], lines[i][h], cfg.separationDistance)

\* C25: after any adds, hasNearby(x, y, distance) is true exactly when some
\* added point p has (p.x - x)^2 + (p.y - y)^2 < distance^2, and a query
\* that returned true still returns true after further adds.
SomeWithin(g, x, y, distance) ==
  \E i \in 1 .. Len(g.entries) :
    Sq(g.entries[i].x - x) + Sq(g.entries[i].y - y) < Sq(distance)
C25_HasNearbyExact ==
  /\ \A q \in QueryPoints : \A distance \in QueryDistances :
       hasNearby(spatialIndex, q.x, q.y, distance)
         <=> SomeWithin(spatialIndex, q.x, q.y, distance)
  /\ \A r \in 1 .. Len(results) :
       results[r].found =>
         hasNearby(spatialIndex, results[r].x, results[r].y,
                   results[r].distance)

\* C26: traceLineBidirectional returns the backward trace reversed, then
\* the forward trace: the start point occurs exactly once, at the index
\* after the backward points; each point after the start is one step
\* along the field from its predecessor and each point before it is one
\* step against the field from its successor, a step being stepLength
\* long; the line has at most 2 * maxSteps + 1 points and a traceLine
\* at most maxSteps + 1.
BackwardOf(start) ==
  TraceLoop(TraceArgs(flowField, cfg.stepLength, cfg.maxSteps, cfg.margin,
                      cfg.attractors, spatialIndex, cfg.separationDistance),
            <<>>, start, 0 - 1, 0)
BothWays(start) ==
  traceLineBidirectional(flowField, start, cfg.stepLength, cfg.maxSteps,
                         cfg.margin, cfg.attractors, spatialIndex,
                         cfg.separationDistance)
OneWay(start) ==
  traceLine(flowField, start, cfg.stepLength, cfg.maxSteps, cfg.margin,
            cfg.attractors, spatialIndex, cfg.separationDistance)
StepFrom(p, dir) ==
  Pt(p.x + dir * Mul(getVector(flowField, p.x, p.y, cfg.attractors).x,
                     cfg.stepLength),
     p.y + dir * Mul(getVector(flowField, p.x, p.y, cfg.attractors).y,
                     cfg.stepLength))
StepApart(p, q) ==
  Abs(Sqrt(Sq(p.x - q.x) + Sq(p.y - q.y)) - cfg.stepLength) <= KILO \div 10
Continuous(line, at) ==
  /\ at \in 1 .. Len(line)
  /\ \A k \in 1 .. Len(line) : (line[k] = line[at]) <=> (k = at)
  /\ \A k \in at .. Len(line) - 1 :
       line[k + 1] = StepFrom(line[k], 1) /\ StepApart(line[k], line[k + 1])
  /\ \A k \in 1 .. at - 1 :
       line[k] = StepFrom(line[k + 1], 0 - 1)
         /\ StepApart(line[k], line[k + 1])
C26_Bidirectional ==
  (pc = "basic" /\ BasicRun(cfg)) =>
    /\ BothWays(loc.starts[loc.idx])[Len(BackwardOf(loc.starts[loc.idx])) + 1]
         = loc.starts[loc.idx]
    /\ Continuous(BothWays(loc.starts[loc.idx]),
                  Len(BackwardOf(loc.starts[loc.idx])) + 1)
    /\ Len(BothWays(loc.starts[loc.idx])) <= 2 * cfg.maxSteps + 1
    /\ Len(OneWay(loc.starts[loc.idx])) <= cfg.maxSteps + 1
C26_Witness ==
  /\ pc = "basic" /\ BasicRun(cfg) /\ cfg.bidirectional /\ lines # <<>>
  /\ Len(BackwardOf(loc.starts[loc.idx])) >= 2
  /\ Len(BothWays(loc.starts[loc.idx]))
       >= Len(BackwardOf(loc.starts[loc.idx])) + 3

\* C27: smoothLine on n >= 3 points runs ceil(strength * 3) iterations,
\* each of which keeps the first and the last point and turns m points
\* into 2 * m, so the result has n * 2^ceil(strength * 3) points and the
\* original end points; fewer than 3 points are returned unchanged.
SmoothStrengths == {300 * KILO, 500 * KILO, ONE}
PassKeeps(result) ==
  /\ Len(ChaikinPass(result)) = 2 * Len(result)
  /\ ChaikinPass(result)[1] = result[1]
  /\ ChaikinPass(result)[2 * Len(result)] = result[Len(result)]
SmoothKeeps(points, strength) ==
  IF Len(points) < 3 THEN smoothLine(points, strength) = points
  ELSE /\ Len(smoothLine(points, strength))
            = Len(points) * 2 ^ Ceil(3 * strength)
       /\ smoothLine(points, strength)[1] = points[1]
       /\ smoothLine(points, strength)[Len(smoothLine(points, strength))]
            = points[Len(points)]
       /\ \A k \in 0 .. Ceil(3 * strength) - 1 :
            /\ PassKeeps(SmoothLoop(points, 0, k))
            /\ SmoothLoop(points, 0, k + 1)
                 = ChaikinPass(SmoothLoop(points, 0, k))
C27_SmoothCount ==
  (pc = "basic" /\ BasicRun(cfg)) =>
    /\ \A strength \in SmoothStrengths :
         SmoothKeeps(RawLine(loc.starts[loc.idx]), strength)
    /\ Smoothed(RawLine(loc.starts[loc.idx]))
         = IF cfg.smoothing > 0
             THEN smoothLine(RawLine(loc.starts[loc.idx]), cfg.smoothing)
             ELSE RawLine(loc.starts[loc.idx])
C27_Witness ==
  /\ pc = "basic" /\ BasicRun(cfg) /\ cfg.smoothing > 0
  /\ Len(RawLine(loc.starts[loc.idx])) >= 4
  /\ smoothLine(RawLine(loc.starts[loc.idx]), ONE)[2]
       # RawLine(loc.starts[loc.idx])[2]
  /\ lines # <<>> /\ Len(lines[Len(lines)]) % 2 = 0

\* C28: generatePoissonDiskPoints terminates (while the loop runs, a
\* positive whole measure falls with every iteration) and returns at most
\* targetCount points, each in [margin, width - margin) x
\* [margin, height - margin) and any two at least
\* minDist = sqrt(area / (targetCount * pi)) * 1.5 apart, the first drawn
\* point included.
PoissonMinDist(c) ==
  Mul(Sqrt(Div(Mul(c.width - 2 * c.margin, c.height - 2 * c.margin),
               c.lineCount * Pi)),
      3 * HALF)
PoissonInside(p, ps) ==
  /\ p.x >= ps.margin /\ p.x < ps.width - ps.margin
  /\ p.y >= ps.margin /\ p.y < ps.height - ps.margin
PoissonSparse(points, ps) ==
  /\ \A i \in 1 .. Len(points) : PoissonInside(points[i], ps)
  /\ \A i \in 1 .. Len(points) : \A j \in 1 .. i - 1 :
       Sqrt(Sq(points[i].x - points[j].x) + Sq(points[i].y - points[j].y))
         >= PoissonMinDist(cfg)
PoissonMeasure(ps) ==
  2 * (2 * ps.targetCount - Len(ps.points)) + Len(ps.activeList)
GridPositions(o) ==
  {Pt(o.margin + i * o.gridSpacing, o.margin + j * o.gridSpacing) :
     i \in {n \in 0 .. o.width \div o.gridSpacing :
              o.margin + n * o.gridSpacing <= o.width - o.margin},
     j \in {n \in 0 .. o.height \div o.gridSpacing :
              o.margin + n * o.gridSpacing <= o.height - o.margin}}
C29_GridStarts ==
  pc # "idle" =>
    /\ {cfg.startPoints[k] : k \in 1 .. Len(cfg.startPoints)}
         = GridPositions(opts)
    /\ Len(cfg.startPoints) = Cardinality(GridPositions(opts))

\* C30: a call runs exactly one strategy: form hatching if
\* formHatchingMode, else swarm if swarmMode, else fill if fillMode and
\* separationDistance > 0, else basic tracing (so fillMode with
\* separationDistance 0 runs basic tracing); outside basic tracing the
\* strategy starts from the state and the configuration it has without
\* startPoints, evenDistribution and bidirectional.
Precedence(c) ==
  IF c.formHatchingMode THEN "hatching"
  ELSE IF c.swarmMode THEN "swarm"
  ELSE IF c.fillMode /\ c.separationDistance > 0 THEN "fill"
  ELSE "basic"
StrategyOf(l) ==
  IF "seeds" \in DOMAIN l THEN "hatching"
  ELSE IF "agents" \in DOMAIN l THEN "swarm"
  ELSE IF "starts" \in DOMAIN l \/ "activeList" \in DOMAIN l THEN "basic"
  ELSE "fill"
StepsOf(strategy) ==
  IF strategy = "hatching" THEN {"hatch", "return"}
  ELSE IF strategy = "swarm" THEN {"swarm", "return"}
  ELSE IF strategy = "fill" THEN {"fill", "return"}
  ELSE {"poisson", "basic", "return"}
NoBasicExtras(c) ==
  [c EXCEPT !.startPointsGiven = FALSE, !.startPoints = <<>>,
            !.evenDistribution = FALSE, !.bidirectional = FALSE]
StartsAs(c, field, l) ==
  IF Precedence(c) = "hatching"
    THEN /\ l = HatchLoc(HatchSeeds(HatchConfig(NoBasicExtras(c))))
         /\ HatchConfig(c) = HatchConfig(NoBasicExtras(c))
  ELSE IF Precedence(c) = "swarm"
    THEN /\ l = SwarmInit(SwarmConfig(NoBasicExtras(c), field), c.seed)
         /\ SwarmConfig(c, field) = SwarmConfig(NoBasicExtras(c), field)
  ELSE IF Precedence(c) = "fill"
    THEN /\ l = StreamInit(NoBasicExtras(c))
         /\ StreamConfig(c, field) = StreamConfig(NoBasicExtras(c), field)
  ELSE TRUE
C30_OneStrategy ==
  [][/\ pc' # "idle" =>
          /\ StrategyOf(loc') = Precedence(cfg')
          /\ pc' \in StepsOf(Precedence(cfg'))
     /\ (pc = "idle" /\ pc' # "idle") => StartsAs(cfg', flowField', loc')]_vars
C30_Witness ==
  /\ pc = "return" /\ lines # <<>>
  /\ cfg.swarmMode /\ cfg.fillMode /\ cfg.separationDistance > 0
  /\ cfg.startPointsGiven /\ cfg.evenDistribution /\ cfg.bidirectional
  /\ ~cfg.formHatchingMode /\ StrategyOf(loc) = "swarm"
=============================================================================
